---- MODULE Spec2Model ----
(***************************************************************************)
(* Verification model of the ghorbu wallet core (src-tauri/src).           *)
(*                                                                         *)
(* Representation choices                                                  *)
(*  - A Vec<UTXOBox> handed to coin selection is the bag of its            *)
(*    utxo.value fields.  select_coins reads no other field, and it draws  *)
(*    its next element either at a uniformly random index (random_improve) *)
(*    or at index 0 after sorting by value (largest_first), so two vectors *)
(*    with the same bag of values have the same set of possible results.   *)
(*  - Option<T> is the value None or the record [some |-> x].              *)
(***************************************************************************)
EXTENDS Integers, Sequences, FiniteSets, Bags, TLC

None == [none |-> TRUE]

Some(x) == [some |-> x]

(***************************************************************************)
(* Program constants                                                       *)
(***************************************************************************)
MAX_INPUTS_PER_TX == 2048

TX_INPUT_SIZE == 147

TX_OUTPUT_SIZE == 34

(***************************************************************************)
(* u64 and i128 arithmetic                                                 *)
(*                                                                         *)
(* A u64 is held as an integer r: r >= 0 stands for the value r, r < 0 for *)
(* the value 2^64 + r, a value close to u64::MAX.  On these representatives*)
(* the integer +, - and * are the wrapping operations of u64, as long as   *)
(* every result stays within 2^31 of 0 or of 2^64, which the inputs below  *)
(* ensure.  A value of type i128, and a mathematical value, is a pair      *)
(* <<h, r>> standing for h * 2^64 + r.                                     *)
(***************************************************************************)
\* the u64 value 2^64 - d
NearMax(d) == 0 - d

\* a < b on u64
U64Lt(a, b) == IF (a < 0) = (b < 0) THEN a < b ELSE a >= 0

\* a + b does not fit in a u64: the addition panics in a build with overflow
\* checks and wraps in a build without them
AddOverflows(a, b) ==
    \/ a < 0 /\ b < 0
    \/ a < 0 /\ b >= 0 /\ a + b >= 0
    \/ b < 0 /\ a >= 0 /\ a + b >= 0

\* x as i128, for a u64 x
Wide(r) == <<IF r < 0 THEN 1 ELSE 0, r>>

WideAdd(x, y) == <<x[1] + y[1], x[2] + y[2]>>

WideSub(x, y) == <<x[1] - y[1], x[2] - y[2]>>

WideTimes(k, x) == <<k * x[1], k * x[2]>>

WideLt(x, y) == x[1] < y[1] \/ (x[1] = y[1] /\ x[2] < y[2])

WideLe(x, y) == x = y \/ WideLt(x, y)

\* i128::abs
WideAbs(x) == IF WideLt(x, <<0, 0>>) THEN <<0 - x[1], 0 - x[2]>> ELSE x

\* the build: with or without overflow checks
BuildModes == BOOLEAN

(***************************************************************************)
(* Bounds of the model                                                     *)
(***************************************************************************)
\* largest number of UTXOs in an enumerated (small) pool
MaxPool == 3

\* UTXO values of the enumerated pools
Values == {1, 147, 225, 400}

\* amounts to send
Targets == {0, 1, 175, NearMax(100)}

\* fee rates (base units per byte)
FeeRates == {0, 1}

\* numbers of outputs requested by the caller
NumOutputs == {1}

(***************************************************************************)
(* utils/varint.rs                                                         *)
(***************************************************************************)
\* length of varint::encode(num)
VarIntLen(num) ==
    IF num < 253 THEN 1
    ELSE IF num < 65536 THEN 3
    ELSE IF num \div 65536 < 65536 THEN 5
    ELSE 9

(***************************************************************************)
(* coin_selection/fee_estimation.rs                                        *)
(***************************************************************************)
estimate_transaction_size(num_inputs, num_outputs) ==
    4 + VarIntLen(num_inputs) + num_inputs * TX_INPUT_SIZE
      + VarIntLen(num_outputs) + num_outputs * TX_OUTPUT_SIZE + 4

estimate_fee(num_inputs, num_outputs, fee_per_byte) ==
    estimate_transaction_size(num_inputs, num_outputs) * fee_per_byte

(***************************************************************************)
(* Bags of UTXO values                                                     *)
(***************************************************************************)
One(v) == SetToBag({v})

RECURSIVE BagSum(_)
\* sum of the values of a bag (utxo.value summed over a vector)
BagSum(b) ==
    IF BagToSet(b) = {} THEN 0
    ELSE LET v == CHOOSE x \in BagToSet(b) : TRUE
         IN  v * CopiesIn(v, b) + BagSum([x \in BagToSet(b) \ {v} |-> b[x]])

\* all bags over the set S with exactly n elements
RECURSIVE BagsOfSize(_, _)
BagsOfSize(S, n) ==
    IF n = 0 THEN {EmptyBag}
    ELSE UNION {{b (+) One(v) : v \in S} : b \in BagsOfSize(S, n - 1)}

SmallPools == UNION {BagsOfSize(Values, n) : n \in 0..MaxPool}

\* n UTXOs of value 1
Dust(n) == [v \in {1} |-> n]

\* pools large enough to reach the input-count limit
BigPools ==
    {Dust(MAX_INPUTS_PER_TX + 1), Dust(MAX_INPUTS_PER_TX + 2),
     Dust(MAX_INPUTS_PER_TX + 1) (+) One(225)}

\* the inputs of one select_coins call
SelectInputs ==
    [pool : SmallPools, num_outputs : NumOutputs, target : Targets,
     fee_per_byte : FeeRates, overflow_checks : BuildModes]
    \cup
    [pool : BigPools, num_outputs : NumOutputs,
     target : {0, MAX_INPUTS_PER_TX, MAX_INPUTS_PER_TX + 1, MAX_INPUTS_PER_TX + 2},
     fee_per_byte : FeeRates, overflow_checks : BuildModes]

(***************************************************************************)
(* keys/bip39.rs, keys/bip32.rs                                            *)
(*                                                                         *)
(* Hash outputs are symbolic.  The 512 bits HMAC-SHA512 yields for a child *)
(* are named by the derivation path that produced them (the seed followed  *)
(* by the four-byte child numbers); a private scalar is [k |-> path] and   *)
(* the curve point of that scalar is [K |-> path].  Different paths name   *)
(* different keys, as for a collision-free hash.                           *)
(***************************************************************************)
\* the mnemonics generate_mnemonic can draw
Mnemonics == {"m1", "m2", "m3"}

\* the passphrases the user can enter
Passphrases == {"p"}

\* bip39::generate_seed: PBKDF2 over the mnemonic and the passphrase
generate_seed(mnemonic, passphrase) == [mnemonic |-> mnemonic, passphrase |-> passphrase]

\* u32::to_be_bytes of a non-hardened number num < 2^31
ToBeBytes(num) ==
    <<num \div 16777216, (num \div 65536) % 256, (num \div 256) % 256, num % 256>>

\* (2u32.pow(31) + num).to_be_bytes()
HardenedBeBytes(num) ==
    <<128 + num \div 16777216, (num \div 65536) % 256, (num \div 256) % 256, num % 256>>

\* the largest child number below 2u32.pow(31)
MAX_CHILD_NUMBER == 2147483647

\* the deepest key that can still have children
MAX_DEPTH == 255

ZeroBytes4 == <<0, 0, 0, 0>>

\* the seeds whose HMAC-SHA512 left half is 0 or not below the curve order n
InvalidMasterSeeds == {generate_seed("m3", "p")}

\* SecretKey::from_slice accepts the scalar: it is neither 0 nor >= n.  A
\* child key that derive_child_key returns is (I_L + k_par) mod n and not 0.
ValidScalar(key_data) == \A seed \in InvalidMasterSeeds : key_data.k # <<seed>>

\* ExtendedPrivateKey::create_master_key
ExtendedPrivateKey_create_master_key(seed, testnet) ==
    [testnet |-> testnet,
     depth |-> 0,
     fingerprint |-> [fp |-> << >>],
     child_number |-> ZeroBytes4,
     chain_code |-> <<seed>>,
     key_data |-> [k |-> <<seed>>]]

\* ExtendedPrivateKey::get_fingerprint / ExtendedPublicKey::get_fingerprint:
\* the first bytes of the hash160 of the key's curve point
get_fingerprint(key) == [fp |-> key.chain_code]

\* the chain code of chain number change of account 0 of the wallet made
\* from the mnemonic
ChainPath(mnemonic, change) ==
    <<generate_seed(mnemonic, "p"), HardenedBeBytes(44), HardenedBeBytes(0),
      ToBeBytes(change)>>

\* the (parent path, child number bytes) pairs whose HMAC left half is not a
\* valid scalar or gives a zero child key.  In the wallet made from mnemonic
\* m2, account 0: child 1 of the external chain, and on the internal chain
\* child 0 and the last two child numbers below 2^31
BadChildren ==
    {<<ChainPath("m2", 0), ToBeBytes(1)>>,
     <<ChainPath("m2", 1), ToBeBytes(0)>>,
     <<ChainPath("m2", 1), ToBeBytes(MAX_CHILD_NUMBER - 1)>>,
     <<ChainPath("m2", 1), ToBeBytes(MAX_CHILD_NUMBER)>>}

\* parse_il >= n || child_key == 0 (the point at infinity on the public side)
InvalidChild(key, child_bytes) == <<key.chain_code, child_bytes>> \in BadChildren

\* the (parent path, child number bytes) pairs whose child scalar
\* (I_L + k_par) mod n is below 2^248, so that BigUint::to_bytes_be yields
\* fewer than 32 bytes: child 2 of the external chain of account 0 of the
\* wallet made from m1, child 1 of the internal chain of account 0 of the
\* wallet made from m2
ShortChildren ==
    {<<ChainPath("m1", 0), ToBeBytes(2)>>,
     <<ChainPath("m2", 1), ToBeBytes(1)>>}

\* child_key.to_bytes_be().len() < 32
ShortChild(key, child_bytes) == <<key.chain_code, child_bytes>> \in ShortChildren

DeriveOk(key) == [ok |-> TRUE, key |-> key]

DeriveErr(message) == [ok |-> FALSE, message |-> message]

\* an expect or unwrap inside the derivation panics
DerivePanic == [ok |-> FALSE, panic |-> TRUE]

RECURSIVE derive_child_key(_, _, _)
\* ExtendedPrivateKey::derive_child_key
derive_child_key(self, num, hardened) ==
    IF num > MAX_CHILD_NUMBER THEN DeriveErr("Child number out of bounds")
    ELSE IF self.depth = MAX_DEPTH THEN DeriveErr("Maximum depth reached")
    ELSE IF ~hardened /\ ~ValidScalar(self.key_data)
    THEN DerivePanic    \* SecretKey::from_slice(&self.key_data).expect(..)
    ELSE LET i == IF hardened THEN HardenedBeBytes(num) ELSE ToBeBytes(num)
         IN  IF InvalidChild(self, i)
             THEN \* self.derive_child_key(num + 1, hardened); the call with
                  \* num + 1 = 2^31 returns the out-of-bounds error
                  IF num = MAX_CHILD_NUMBER
                  THEN DeriveErr("Child number out of bounds")
                  ELSE derive_child_key(self, num + 1, hardened)
             ELSE IF ~ValidScalar(self.key_data)
             THEN DerivePanic    \* get_fingerprint: SecretKey::from_slice(..).expect(..)
             ELSE IF ShortChild(self, i)
             THEN DerivePanic    \* key_data: child_key_data.try_into().unwrap()
             ELSE DeriveOk([testnet |-> self.testnet,
                            depth |-> self.depth + 1,
                            fingerprint |-> get_fingerprint(self),
                            child_number |-> i,
                            chain_code |-> Append(self.chain_code, i),
                            key_data |-> [k |-> Append(self.key_data.k, i)]])

RECURSIVE ExtendedPublicKey_derive_child_key(_, _)
\* ExtendedPublicKey::derive_child_key
ExtendedPublicKey_derive_child_key(self, num) ==
    IF num > MAX_CHILD_NUMBER THEN DeriveErr("Child number out of bounds")
    ELSE IF self.depth = MAX_DEPTH THEN DeriveErr("Maximum depth reached")
    ELSE LET i == ToBeBytes(num)
         IN  IF InvalidChild(self, i)
             THEN IF num = MAX_CHILD_NUMBER
                  THEN DeriveErr("Child number out of bounds")
                  ELSE ExtendedPublicKey_derive_child_key(self, num + 1)
             ELSE DeriveOk([testnet |-> self.testnet,
                            depth |-> self.depth + 1,
                            fingerprint |-> get_fingerprint(self),
                            child_number |-> i,
                            chain_code |-> Append(self.chain_code, i),
                            key_data |-> [K |-> Append(self.key_data.K, i)]])

\* ExtendedPublicKey::derive_public_key
derive_public_key(private_key) ==
    [testnet |-> private_key.testnet,
     depth |-> private_key.depth,
     fingerprint |-> private_key.fingerprint,
     child_number |-> private_key.child_number,
     chain_code |-> private_key.chain_code,
     key_data |-> [K |-> private_key.key_data.k]]

\* keys/address.rs Address::create
Address_create(public_key) ==
    [testnet |-> public_key.testnet, hash160 |-> [h160 |-> public_key.key_data]]

(***************************************************************************)
(* keys/bip44/mod.rs, keys/bip44/private_hierarchy.rs                      *)
(* A BTreeMap is a function on the finite set of its keys.                 *)
(***************************************************************************)
BITCOIN_INDEX == 0

BITCOIN_TESTNET_INDEX == 1

COIN_TYPE_NAMES == (0 :> "Bitcoin") @@ (1 :> "Bitcoin Testnet")

EmptyMap == << >>

\* the largest key of a non-empty map
MaxKey(map) == CHOOSE i \in DOMAIN map : \A j \in DOMAIN map : j <= i

\* variant: the map afterwards holds the new entry alone
Insert_Alone(map, key, value) == [i \in {key} |-> value]

\* BTreeMap::insert
Insert(map, key, value) == [i \in DOMAIN map \cup {key} |-> IF i = key THEN value ELSE map[i]]

Keypair_create(private_key, public_key) ==
    [private_key |-> private_key, public_key |-> public_key]

Change_create(index, private_key) ==
    [index |-> index, private_key |-> private_key, keys |-> EmptyMap]

\* variant: with no index given, the next index is the number of keys held
NewKeypairIndex_Count(self, index) ==
    IF index # None THEN index.some
    ELSE Cardinality(DOMAIN self.keys)

\* the index Change::new_keypair uses: the given one, or the next free one
NewKeypairIndex(self, index) ==
    IF index # None THEN index.some
    ELSE IF DOMAIN self.keys = {} THEN 0
    ELSE MaxKey(self.keys) + 1

\* Change::new_keypair: the chain afterwards and the keypair returned, or a
\* panic of derive_child_key(..).unwrap() that leaves the chain as it was
Change_new_keypair(self, index) ==
    LET idx == NewKeypairIndex(self, index)
        \* one more than the largest key is 2^31 when that key is 2^31 - 1
        derived == IF index = None /\ DOMAIN self.keys # {}
                      /\ MaxKey(self.keys) = MAX_CHILD_NUMBER
                   THEN DeriveErr("Child number out of bounds")
                   ELSE derive_child_key(self.private_key, idx, FALSE)
        child_private_key == derived.key
        child_public_key == derive_public_key(child_private_key)
        keypair == Keypair_create(child_private_key, child_public_key)
    IN  IF ~derived.ok THEN [panic |-> TRUE, self |-> self, keypair |-> None]
        ELSE [panic |-> FALSE,
              self |-> [self EXCEPT !.keys = Insert(self.keys, idx, keypair)],
              keypair |-> keypair]

\* Account::create: the account, or a panic of derive_child_key(..).unwrap()
Account_create(index, private_key) ==
    LET external == derive_child_key(private_key, 0, FALSE)
        internal == derive_child_key(private_key, 1, FALSE)
    IN  IF ~external.ok \/ ~internal.ok THEN [panic |-> TRUE, account |-> None]
        ELSE [panic |-> FALSE,
              account |-> [index |-> index,
                           private_key |-> private_key,
                           external_chain |-> Change_create(0, external.key),
                           internal_chain |-> Change_create(1, internal.key)]]

\* variant: the coin-type key keeps the flag of the key it is made from
CoinType_create_KeepFlag(index, private_key) ==
    [index |-> index,
     name |-> COIN_TYPE_NAMES[index],
     private_key |-> private_key,
     accounts |-> EmptyMap]

\* CoinType::create
CoinType_create(index, private_key) ==
    [index |-> index,
     name |-> COIN_TYPE_NAMES[index],
     private_key |-> [private_key EXCEPT !.testnet = (index = BITCOIN_TESTNET_INDEX)],
     accounts |-> EmptyMap]

\* variant: every account is created under index 0
CoinType_add_account_First(self) ==
    LET index == 0
        child_key == derive_child_key(self.private_key, index, TRUE)
        created == Account_create(index, child_key.key)
    IN  IF ~child_key.ok \/ created.panic
        THEN [panic |-> TRUE, self |-> self, account |-> None]
        ELSE [panic |-> FALSE,
              self |-> [self EXCEPT
                          !.accounts = Insert(self.accounts, index, created.account)],
              account |-> created.account]

\* CoinType::add_account: the coin type afterwards and the account returned
CoinType_add_account(self) ==
    LET index == IF DOMAIN self.accounts = {} THEN 0 ELSE MaxKey(self.accounts) + 1
        child_key == derive_child_key(self.private_key, index, TRUE)
        created == Account_create(index, child_key.key)
    IN  IF ~child_key.ok \/ created.panic
        THEN [panic |-> TRUE, self |-> self, account |-> None]
        ELSE [panic |-> FALSE,
              self |-> [self EXCEPT
                          !.accounts = Insert(self.accounts, index, created.account)],
              account |-> created.account]

\* Purpose::create: the purpose node, or a panic of derive_child_key(..).unwrap()
Purpose_create(private_key) ==
    LET child_key == derive_child_key(private_key, 44, TRUE)
    IN  IF ~child_key.ok THEN [panic |-> TRUE, purpose |-> None]
        ELSE [panic |-> FALSE,
              purpose |-> [index |-> 44,
                           private_key |-> child_key.key,
                           coin_types |-> [index \in DOMAIN COIN_TYPE_NAMES |->
                                             CoinType_create(index, child_key.key)]]]

\* MasterPrivateKey::create_from_key
create_from_key(private_key) ==
    LET created == Purpose_create(private_key)
    IN  IF created.panic THEN [panic |-> TRUE, master_key |-> None]
        ELSE [panic |-> FALSE,
              master_key |-> [private_key |-> private_key, purpose |-> created.purpose]]

\* MasterPrivateKey::create_from_seed
create_from_seed(seed) ==
    create_from_key(ExtendedPrivateKey_create_master_key(seed, TRUE))

\* MasterPrivateKey::add_account / Purpose::add_account (the coin type exists)
add_account(self, coin_type_index) ==
    LET r == CoinType_add_account(self.purpose.coin_types[coin_type_index])
    IN  [panic |-> r.panic,
         self |-> [self EXCEPT !.purpose.coin_types[coin_type_index] = r.self],
         account |-> r.account]

\* MasterPrivateKey::new_receive_keypair (the coin type and the account exist)
new_receive_keypair(self, coin_type_index, account_index, key_index) ==
    LET account == self.purpose.coin_types[coin_type_index].accounts[account_index]
        r == Change_new_keypair(account.external_chain, key_index)
    IN  [panic |-> r.panic,
         self |-> [self EXCEPT
                     !.purpose.coin_types[coin_type_index].accounts[account_index]
                        .external_chain = r.self],
         keypair |-> r.keypair]

\* MasterPrivateKey::new_change_keypair (the coin type and the account exist)
new_change_keypair(self, coin_type_index, account_index, key_index) ==
    LET account == self.purpose.coin_types[coin_type_index].accounts[account_index]
        r == Change_new_keypair(account.internal_chain, key_index)
    IN  [panic |-> r.panic,
         self |-> [self EXCEPT
                     !.purpose.coin_types[coin_type_index].accounts[account_index]
                        .internal_chain = r.self],
         keypair |-> r.keypair]

\* the values of a map in ascending key order, as BTreeMap::iter yields them
RECURSIVE MapValues(_)
MapValues(map) ==
    IF DOMAIN map = {} THEN << >>
    ELSE LET m == MaxKey(map)
         IN  Append(MapValues([i \in DOMAIN map \ {m} |-> map[i]]), map[m])

\* MasterPrivateKey::get_all_keypairs: receive keypairs, then change keypairs
get_all_keypairs(self, coin_type_index, account_index) ==
    LET account == self.purpose.coin_types[coin_type_index].accounts[account_index]
    IN  MapValues(account.external_chain.keys) \o MapValues(account.internal_chain.keys)

(***************************************************************************)
(* keys/bip44/public_hierarchy.rs                                          *)
(***************************************************************************)
\* variant: the public chain is created without its keys
PublicChange_create_NoKeys(change) ==
    [index |-> change.index,
     public_key |-> derive_public_key(change.private_key),
     keys |-> EmptyMap]

\* PublicChange::create
PublicChange_create(change) ==
    [index |-> change.index,
     public_key |-> derive_public_key(change.private_key),
     keys |-> [i \in DOMAIN change.keys |-> change.keys[i].public_key]]

PublicAccount_create(account) ==
    [index |-> account.index,
     public_key |-> derive_public_key(account.private_key),
     external_chain |-> PublicChange_create(account.external_chain),
     internal_chain |-> PublicChange_create(account.internal_chain)]

PublicCoinType_create(coin_type) ==
    [index |-> coin_type.index,
     name |-> coin_type.name,
     public_key |-> derive_public_key(coin_type.private_key),
     accounts |-> [i \in DOMAIN coin_type.accounts |->
                     PublicAccount_create(coin_type.accounts[i])]]

PublicPurpose_create(purpose) ==
    [index |-> purpose.index,
     public_key |-> derive_public_key(purpose.private_key),
     coin_types |-> [i \in DOMAIN purpose.coin_types |->
                       PublicCoinType_create(purpose.coin_types[i])]]

\* MasterPublicKey::create_from_key
MasterPublicKey_create_from_key(master_private_key) ==
    [public_key |-> derive_public_key(master_private_key.private_key),
     purpose |-> PublicPurpose_create(master_private_key.purpose)]

\* Iterator::rev
RECURSIVE Rev(_)
Rev(seq) == IF seq = << >> THEN << >> ELSE Append(Rev(Tail(seq)), Head(seq))

\* the addresses of the keys of a public chain, last key first
ChainAddresses(chain) ==
    Rev(MapValues([i \in DOMAIN chain.keys |-> Address_create(chain.keys[i])]))

\* MasterPublicKey::get_all_receive_addresses
get_all_receive_addresses(self, coin_type_index, account_index) ==
    ChainAddresses(self.purpose.coin_types[coin_type_index].accounts[account_index]
                      .external_chain)

\* MasterPublicKey::get_all_change_addresses
get_all_change_addresses(self, coin_type_index, account_index) ==
    ChainAddresses(self.purpose.coin_types[coin_type_index].accounts[account_index]
                      .internal_chain)

\* MasterPublicKey::get_all_addresses: receive addresses, then change addresses
get_all_addresses(self, coin_type_index, account_index) ==
    get_all_receive_addresses(self, coin_type_index, account_index)
        \o get_all_change_addresses(self, coin_type_index, account_index)

(***************************************************************************)
(* encryption/mod.rs and the bincode encoding                              *)
(***************************************************************************)
\* bincode::serialize: the bytes that encode a value
Serialize(value) == [bincode |-> value]

\* bincode::deserialize
Deserialize(bytes) == bytes.bincode

\* AES-256-GCM under the key Argon2id derives from the password
encrypt(plaintext, password) == [ciphertext_of |-> plaintext, key |-> password]

\* variant: the tag verifies under every key
decrypt_AnyKey(ciphertext, password) ==
    [ok |-> TRUE, plaintext |-> ciphertext.ciphertext_of]

\* decrypt: the plaintext, or WrongPasswordError when the tag does not verify
decrypt(ciphertext, password) ==
    IF ciphertext.key = password
    THEN [ok |-> TRUE, plaintext |-> ciphertext.ciphertext_of]
    ELSE [ok |-> FALSE, error |-> "WrongPasswordError"]

VARIABLES
    cs_pc,            \* position inside select_coins
    cs_algo,          \* the function that was called
    cs_in,            \* the arguments of the call
    boxed_utxos,      \* the pool (bag of values)
    selected_utxos,   \* the selection built so far (bag of values)
    selected_amount,
    target_plus_fee,
    indices,          \* phase 2: the pool entries not yet considered
    considered,       \* phase 2: how many entries have been considered
    fallback_pool,    \* the pool handed to largest_first by the fallback, or None
    cs_result,        \* None while running, else the Result of the call
    file,             \* the wallet file: None, or Some(bytes)
    db,               \* Database: the session cache, a map from String to bytes
    ret,              \* the last value a facade operation returned, with its name
    added,            \* the accounts and keys successful operations have added
    send_pc,          \* position of send_transaction between its await points
    send_args,        \* the arguments of the send_transaction in flight
    master_private_key, \* the hierarchy the send_transaction in flight has loaded
    send_before,      \* file and cache as they were when the last send was called
    send_tx,          \* the transaction the last send handed to the broadcast
    private_tree,     \* a MasterPrivateKey held in memory, or None
    public_tree,      \* a MasterPublicKey held in memory, or None
    call,             \* the last call made on its own: its name and arguments
    result            \* what that call returned

cs_vars ==
    <<cs_pc, cs_algo, cs_in, boxed_utxos, selected_utxos, selected_amount,
      target_plus_fee, indices, considered, fallback_pool, cs_result>>

facade_vars ==
    <<file, db, ret, added, send_pc, send_args, master_private_key, send_before, send_tx>>

unit_vars == <<private_tree, public_tree, call, result>>

vars == <<cs_vars, facade_vars, unit_vars>>

Ok(selected, change) == [ok |-> TRUE, selected_utxos |-> selected, change |-> change]

Err(message) == [ok |-> FALSE, message |-> message]

\* the call panicked (an unwrap of None, an arithmetic overflow in a build
\* with overflow checks) and returned nothing
Panic == [ok |-> FALSE, panic |-> TRUE]

(***************************************************************************)
(* coin_selection/largest_first.rs                                         *)
(***************************************************************************)
\* the element at index 0 after sort_by_key(-value)
LargestFirst(pool) == CHOOSE v \in BagToSet(pool) : \A w \in BagToSet(pool) : w <= v

\* entry of largest_first::select_coins: fresh locals
LFEnter(pool) ==
    /\ boxed_utxos' = pool
    /\ selected_utxos' = EmptyBag
    /\ selected_amount' = 0
    /\ cs_pc' = "lf_loop"

\* the outcome of one loop iteration once the UTXO is pushed:
\* an error, a panic, a result, or None to continue
LFOutcome(selected, amount, num_outputs, target, fee_per_byte, overflow_checks) ==
    IF BagCardinality(selected) > MAX_INPUTS_PER_TX
    THEN Err("max_input_count_exceeded")
    ELSE LET fee == estimate_fee(BagCardinality(selected), num_outputs + 1, fee_per_byte)
             tpf == target + fee
         IN  IF overflow_checks /\ AddOverflows(target, fee) THEN Panic
             ELSE IF U64Lt(amount, tpf) THEN None
             ELSE IF U64Lt(tpf, amount) THEN Ok(selected, Some(amount - tpf))
             ELSE Ok(selected, None)

\* one iteration of the while loop
LFStep ==
    /\ UNCHANGED <<facade_vars, unit_vars>>
    /\ cs_pc = "lf_loop"
    /\ BagToSet(boxed_utxos) # {}
    /\ LET v == LargestFirst(boxed_utxos)
           sel == selected_utxos (+) One(v)
           amt == selected_amount + v
           out == IF cs_in.overflow_checks /\ AddOverflows(selected_amount, v)
                  THEN Panic
                  ELSE LFOutcome(sel, amt, cs_in.num_outputs, cs_in.target,
                                 cs_in.fee_per_byte, cs_in.overflow_checks)
       IN  /\ boxed_utxos' = boxed_utxos (-) One(v)
           /\ selected_utxos' = sel
           /\ selected_amount' = amt
           /\ cs_result' = out
           /\ cs_pc' = IF out = None THEN "lf_loop" ELSE "done"
    /\ UNCHANGED <<cs_algo, cs_in, target_plus_fee, indices, considered, fallback_pool>>

\* the loop ends with the pool empty
LFExhausted ==
    /\ UNCHANGED <<facade_vars, unit_vars>>
    /\ cs_pc = "lf_loop"
    /\ BagToSet(boxed_utxos) = {}
    /\ cs_result' = Err("balance_insufficient")
    /\ cs_pc' = "done"
    /\ UNCHANGED <<cs_algo, cs_in, boxed_utxos, selected_utxos, selected_amount,
                   target_plus_fee, indices, considered, fallback_pool>>

(***************************************************************************)
(* coin_selection/random_improve.rs                                        *)
(***************************************************************************)
\* the loop-head test of phase 1 that hands over to largest_first
Phase1Overflow(selected) == BagCardinality(selected) > MAX_INPUTS_PER_TX

\* variant: the UTXO drawn stays in the pool
RIPhase1Step_KeepsDrawn ==
    /\ UNCHANGED <<facade_vars, unit_vars>>
    /\ cs_pc = "ri_phase1"
    /\ BagToSet(boxed_utxos) # {}
    /\ ~Phase1Overflow(selected_utxos)
    /\ \E v \in BagToSet(boxed_utxos) :
         LET sel == selected_utxos (+) One(v)
             amt == selected_amount + v
             fee == estimate_fee(BagCardinality(sel), cs_in.num_outputs + 1,
                                 cs_in.fee_per_byte)
             tpf == cs_in.target + fee
             panics == /\ cs_in.overflow_checks
                       /\ \/ AddOverflows(selected_amount, v)
                          \/ AddOverflows(cs_in.target, fee)
         IN  /\ boxed_utxos' = boxed_utxos
             /\ selected_utxos' = sel
             /\ selected_amount' = amt
             /\ target_plus_fee' = IF panics THEN target_plus_fee ELSE tpf
             /\ cs_result' = IF panics THEN Panic ELSE cs_result
             /\ cs_pc' = IF panics THEN "done"
                         ELSE IF ~U64Lt(amt, tpf) THEN "ri_after_loop" ELSE "ri_phase1"
    /\ UNCHANGED <<cs_algo, cs_in, indices, considered, fallback_pool>>

\* phase 1: one random draw
RIPhase1Step ==
    /\ UNCHANGED <<facade_vars, unit_vars>>
    /\ cs_pc = "ri_phase1"
    /\ BagToSet(boxed_utxos) # {}
    /\ ~Phase1Overflow(selected_utxos)
    /\ \E v \in BagToSet(boxed_utxos) :
         LET sel == selected_utxos (+) One(v)
             amt == selected_amount + v
             fee == estimate_fee(BagCardinality(sel), cs_in.num_outputs + 1,
                                 cs_in.fee_per_byte)
             tpf == cs_in.target + fee
             panics == /\ cs_in.overflow_checks
                       /\ \/ AddOverflows(selected_amount, v)
                          \/ AddOverflows(cs_in.target, fee)
         IN  /\ boxed_utxos' = boxed_utxos (-) One(v)
             /\ selected_utxos' = sel
             /\ selected_amount' = amt
             /\ target_plus_fee' = IF panics THEN target_plus_fee ELSE tpf
             /\ cs_result' = IF panics THEN Panic ELSE cs_result
             /\ cs_pc' = IF panics THEN "done"
                         ELSE IF ~U64Lt(amt, tpf) THEN "ri_after_loop" ELSE "ri_phase1"
    /\ UNCHANGED <<cs_algo, cs_in, indices, considered, fallback_pool>>

\* variant: largest_first is called with the pool select_coins was called with
RIFallback_WholePool ==
    /\ UNCHANGED <<facade_vars, unit_vars>>
    /\ cs_pc = "ri_phase1"
    /\ BagToSet(boxed_utxos) # {}
    /\ Phase1Overflow(selected_utxos)
    /\ LFEnter(cs_in.pool)
    /\ fallback_pool' = Some(cs_in.pool)
    /\ UNCHANGED <<cs_algo, cs_in, target_plus_fee, indices, considered, cs_result>>

\* phase 1: too many inputs, return largest_first over the remaining pool
RIFallback ==
    /\ UNCHANGED <<facade_vars, unit_vars>>
    /\ cs_pc = "ri_phase1"
    /\ BagToSet(boxed_utxos) # {}
    /\ Phase1Overflow(selected_utxos)
    /\ LFEnter(boxed_utxos)
    /\ fallback_pool' = Some(boxed_utxos)
    /\ UNCHANGED <<cs_algo, cs_in, target_plus_fee, indices, considered, cs_result>>

\* the message of the error returned after phase 1
Phase1Error == "Balance insufficient"

\* after the loop of phase 1: fail, or set up phase 2
RIAfterLoop ==
    /\ UNCHANGED <<facade_vars, unit_vars>>
    /\ \/ cs_pc = "ri_after_loop"
       \/ cs_pc = "ri_phase1" /\ BagToSet(boxed_utxos) = {}
    /\ IF U64Lt(selected_amount, target_plus_fee)
       THEN /\ cs_result' = Err(Phase1Error)
            /\ cs_pc' = "done"
            /\ UNCHANGED <<indices, considered>>
       ELSE /\ indices' = boxed_utxos
            /\ considered' = 0
            /\ cs_pc' = "ri_phase2"
            /\ UNCHANGED cs_result
    /\ UNCHANGED <<cs_algo, cs_in, boxed_utxos, selected_utxos, selected_amount,
                   target_plus_fee, fallback_pool>>

\* the fee phase 2 estimates for a candidate
Phase2Fee(selected, num_outputs, fee_per_byte) ==
    estimate_fee(BagCardinality(selected) + 1, num_outputs + 1, fee_per_byte)

\* target_plus_fee as phase 2 recomputes it for a candidate
Phase2Target(selected, num_outputs, target, fee_per_byte) ==
    target + Phase2Fee(selected, num_outputs, fee_per_byte)

\* condition1 && condition2 && condition3
Phase2Accepts(selected, amount, v, tpf) ==
    LET ideal == WideTimes(2, Wide(tpf))
        maximum == WideTimes(3, Wide(tpf))
        new_amount == Wide(amount + v)
        condition1 == WideLt(WideAbs(WideSub(ideal, new_amount)),
                             WideAbs(WideSub(ideal, Wide(amount))))
        condition2 == WideLe(new_amount, maximum)
        condition3 == BagCardinality(selected) + 1 <= MAX_INPUTS_PER_TX
    IN  condition1 /\ condition2 /\ condition3

\* phase 2: consider one random remaining UTXO
RIPhase2Step ==
    /\ UNCHANGED <<facade_vars, unit_vars>>
    /\ cs_pc = "ri_phase2"
    /\ BagToSet(indices) # {}
    /\ \E v \in BagToSet(indices) :
         LET tpf == Phase2Target(selected_utxos, cs_in.num_outputs, cs_in.target,
                                 cs_in.fee_per_byte)
             panics == /\ cs_in.overflow_checks
                       /\ \/ AddOverflows(cs_in.target,
                                          Phase2Fee(selected_utxos, cs_in.num_outputs,
                                                    cs_in.fee_per_byte))
                          \/ AddOverflows(selected_amount, v)
         IN  IF panics
             THEN /\ cs_result' = Panic
                  /\ cs_pc' = "done"
                  /\ UNCHANGED <<target_plus_fee, boxed_utxos, selected_amount,
                                 selected_utxos, indices, considered>>
             ELSE /\ target_plus_fee' = tpf
                  /\ IF Phase2Accepts(selected_utxos, selected_amount, v, tpf)
                     THEN /\ boxed_utxos' = boxed_utxos (-) One(v)
                          /\ selected_amount' = selected_amount + v
                          /\ selected_utxos' = selected_utxos (+) One(v)
                     ELSE UNCHANGED <<boxed_utxos, selected_amount, selected_utxos>>
                  /\ indices' = indices (-) One(v)
                  /\ considered' = considered + 1
                  /\ UNCHANGED <<cs_pc, cs_result>>
    /\ UNCHANGED <<cs_algo, cs_in, fallback_pool>>

\* the change returned after phase 2
Phase2Change(amount, tpf) == IF U64Lt(tpf, amount) THEN Some(amount - tpf) ELSE None

\* phase 2 is over: return the selection
RIReturn ==
    /\ UNCHANGED <<facade_vars, unit_vars>>
    /\ cs_pc = "ri_phase2"
    /\ BagToSet(indices) = {}
    /\ cs_result' = Ok(selected_utxos, Phase2Change(selected_amount, target_plus_fee))
    /\ cs_pc' = "done"
    /\ UNCHANGED <<cs_algo, cs_in, boxed_utxos, selected_utxos, selected_amount,
                   target_plus_fee, indices, considered, fallback_pool>>

(***************************************************************************)
(* main.rs: the facade                                                     *)
(***************************************************************************)
\* the passwords a caller can supply
Passwords == {"pw", "bad"}

\* the coin types a caller can name
CoinTypeInputs == {BITCOIN_INDEX, BITCOIN_TESTNET_INDEX}

\* the account indices a caller can name
AccountInputs == {0, 1}

\* the amounts and fee rates of a send_transaction call
SendAmounts == {175, NearMax(100)}

SendFees == {1}

\* the values of the UTXOs the indexer can report, and how many at most
NetValues == {1, 400}

MaxNetUtxos == 2

NetPools == UNION {BagsOfSize(NetValues, n) : n \in 0..MaxNetUtxos}

\* accounts plus keypairs a wallet can hold before the model stops growing it
MaxNodes == 3

\* HashMap::remove
Remove(map, key) == [k \in DOMAIN map \ {key} |-> map[k]]

\* the accounts <<coin, account>> and keypairs <<coin, account, chain, index>>
\* of a private hierarchy
Nodes(mk) ==
    LET cts == mk.purpose.coin_types
    IN  UNION {{<<c, a>> : a \in DOMAIN cts[c].accounts} : c \in DOMAIN cts}
        \cup UNION {UNION {{<<c, a, 0, i>> : i \in DOMAIN cts[c].accounts[a].external_chain.keys}
                           \cup {<<c, a, 1, i>> : i \in DOMAIN cts[c].accounts[a].internal_chain.keys}
                           : a \in DOMAIN cts[c].accounts} : c \in DOMAIN cts}

\* MasterPrivateKey::save: the bytes written to the file
SavedBytes(self, password) == encrypt(Serialize(self), password)

\* MasterPrivateKey::load
load(wallet_file, password) ==
    IF wallet_file = None THEN [ok |-> FALSE, error |-> "io::Error"]
    ELSE LET buffer_decrypted == decrypt(wallet_file.some, password)
         IN  IF ~buffer_decrypted.ok THEN buffer_decrypted
             ELSE [ok |-> TRUE, master_key |-> Deserialize(buffer_decrypted.plaintext)]

\* variant: the two tags are exchanged
LoadErrorTag_Swapped(r) ==
    IF r.error = "io::Error" THEN "wrong_password_error"
    ELSE IF r.error = "WrongPasswordError" THEN "io_error"
    ELSE "other_error"

\* the string a facade operation returns for a failed load
LoadErrorTag(r) ==
    IF r.error = "io::Error" THEN "io_error"
    ELSE IF r.error = "WrongPasswordError" THEN "wrong_password_error"
    ELSE "other_error"

\* db.insert("master_public_key", MasterPublicKey::create_from_key(..).serialize())
CachePublic(cache, mk) ==
    Insert(cache, "master_public_key", Serialize(MasterPublicKey_create_from_key(mk)))

Returned(op, value) == [op |-> op, value |-> value]

\* what an operation that loads the wallet file returned, with the password
\* it was called with
ReturnedTo(op, password, value) == [op |-> op, password |-> password, value |-> value]

\* no select_coins call is running
SelectIdle ==
    /\ cs_pc = "idle"
    /\ cs_algo = "none"
    /\ cs_in = None
    /\ boxed_utxos = EmptyBag
    /\ selected_utxos = EmptyBag
    /\ selected_amount = 0
    /\ target_plus_fee = 0
    /\ indices = EmptyBag
    /\ considered = 0
    /\ fallback_pool = None
    /\ cs_result = None

\* the locals of select_coins are dropped
SelectReset ==
    /\ cs_pc' = "idle"
    /\ cs_algo' = "none"
    /\ cs_in' = None
    /\ boxed_utxos' = EmptyBag
    /\ selected_utxos' = EmptyBag
    /\ selected_amount' = 0
    /\ target_plus_fee' = 0
    /\ indices' = EmptyBag
    /\ considered' = 0
    /\ fallback_pool' = None
    /\ cs_result' = None

\* no send_transaction is in flight
SendIdle ==
    /\ send_pc = "idle"
    /\ send_args = None
    /\ master_private_key = None
    /\ send_tx = None

\* send_transaction returns: its locals are dropped
SendReset ==
    /\ send_pc' = "idle"
    /\ send_args' = None
    /\ master_private_key' = None

\* no call has been made on the key hierarchies, the addresses or the
\* transactions themselves
UnitIdle ==
    /\ private_tree = None
    /\ public_tree = None
    /\ call = None
    /\ result = None

\* the application has started: empty Database, no wallet file yet
FacadeAtStart ==
    /\ file = None
    /\ db = EmptyMap
    /\ ret = None
    /\ added = {}
    /\ SendIdle
    /\ send_before = None

send_locals == <<send_pc, send_args, master_private_key>>

\* what is remembered of the last send is dropped when another operation runs
ForgetLastSend ==
    IF send_pc = "idle"
    THEN send_before' = None /\ send_tx' = None
    ELSE UNCHANGED <<send_before, send_tx>>

generate_mnemonic ==
    /\ \E mnemonic \in Mnemonics :
         /\ db' = Insert(db, "mnemonic", Serialize(mnemonic))
         /\ ret' = Returned("generate_mnemonic", [ok |-> TRUE, mnemonic |-> mnemonic])
    /\ ForgetLastSend
    /\ UNCHANGED <<file, added, send_locals, cs_vars, unit_vars>>

send_passphrase ==
    /\ \E passphrase \in Passphrases :
         db' = Insert(db, "passphrase", Serialize(passphrase))
    /\ ret' = Returned("send_passphrase", [ok |-> TRUE])
    /\ ForgetLastSend
    /\ UNCHANGED <<file, added, send_locals, cs_vars, unit_vars>>

\* variant: the mnemonic stays in the cache
create_master_key_KeepsMnemonic ==
    /\ \E password \in Passwords :
         IF "passphrase" \notin DOMAIN db
         THEN \* remove("passphrase").unwrap() panics
              /\ ret' = Returned("create_master_key", Panic)
              /\ UNCHANGED <<file, db, added>>
         ELSE IF "mnemonic" \notin DOMAIN db
         THEN \* the passphrase is removed, then remove("mnemonic").unwrap() panics
              /\ db' = Remove(db, "passphrase")
              /\ ret' = Returned("create_master_key", Panic)
              /\ UNCHANGED <<file, added>>
         ELSE LET passphrase == Deserialize(db["passphrase"])
                  mnemonic == Deserialize(db["mnemonic"])
                  seed == generate_seed(mnemonic, passphrase)
                  created == create_from_seed(seed)
                  mk == created.master_key
              IN  IF created.panic
                  THEN \* both entries are removed, then create_from_seed panics
                       /\ db' = Remove(Remove(db, "passphrase"), "mnemonic")
                       /\ ret' = Returned("create_master_key", Panic)
                       /\ UNCHANGED <<file, added>>
                  ELSE /\ file' = Some(SavedBytes(mk, password))
                       /\ db' = CachePublic(Remove(db, "passphrase"), mk)
                       /\ ret' = Returned("create_master_key", [ok |-> TRUE])
                       /\ added' = {}
    /\ ForgetLastSend
    /\ UNCHANGED <<send_locals, cs_vars, unit_vars>>

create_master_key ==
    /\ \E password \in Passwords :
         IF "passphrase" \notin DOMAIN db
         THEN \* remove("passphrase").unwrap() panics
              /\ ret' = Returned("create_master_key", Panic)
              /\ UNCHANGED <<file, db, added>>
         ELSE IF "mnemonic" \notin DOMAIN db
         THEN \* the passphrase is removed, then remove("mnemonic").unwrap() panics
              /\ db' = Remove(db, "passphrase")
              /\ ret' = Returned("create_master_key", Panic)
              /\ UNCHANGED <<file, added>>
         ELSE LET passphrase == Deserialize(db["passphrase"])
                  mnemonic == Deserialize(db["mnemonic"])
                  seed == generate_seed(mnemonic, passphrase)
                  created == create_from_seed(seed)
                  mk == created.master_key
              IN  IF created.panic
                  THEN \* both entries are removed, then create_from_seed panics
                       /\ db' = Remove(Remove(db, "passphrase"), "mnemonic")
                       /\ ret' = Returned("create_master_key", Panic)
                       /\ UNCHANGED <<file, added>>
                  ELSE /\ file' = Some(SavedBytes(mk, password))
                       /\ db' = CachePublic(Remove(Remove(db, "passphrase"), "mnemonic"),
                                            mk)
                       /\ ret' = Returned("create_master_key", [ok |-> TRUE])
                       /\ added' = {}
    /\ ForgetLastSend
    /\ UNCHANGED <<send_locals, cs_vars, unit_vars>>

load_master_key ==
    /\ \E password \in Passwords :
         LET r == load(file, password)
         IN  IF r.ok
             THEN /\ db' = CachePublic(db, r.master_key)
                  /\ ret' = ReturnedTo("load_master_key", password, [ok |-> TRUE])
             ELSE /\ ret' = ReturnedTo("load_master_key", password, Err(LoadErrorTag(r)))
                  /\ UNCHANGED db
    /\ ForgetLastSend
    /\ UNCHANGED <<file, added, send_locals, cs_vars, unit_vars>>

create_new_account ==
    /\ \E coin_type_index \in CoinTypeInputs, password \in Passwords :
         LET r == load(file, password)
         IN  IF r.ok
             THEN /\ Cardinality(Nodes(r.master_key)) < MaxNodes
                  /\ LET a == add_account(r.master_key, coin_type_index)
                     IN  IF a.panic
                         THEN /\ ret' = ReturnedTo("create_new_account", password, Panic)
                              /\ UNCHANGED <<file, db, added>>
                         ELSE /\ file' = Some(SavedBytes(a.self, password))
                              /\ db' = CachePublic(db, a.self)
                              /\ added' = added \cup {<<coin_type_index, a.account.index>>}
                              /\ ret' = ReturnedTo("create_new_account", password, [ok |-> TRUE])
             ELSE /\ ret' = ReturnedTo("create_new_account", password, Err(LoadErrorTag(r)))
                  /\ UNCHANGED <<file, db, added>>
    /\ ForgetLastSend
    /\ UNCHANGED <<send_locals, cs_vars, unit_vars>>

get_new_receive_address ==
    /\ \E coin_type_index \in CoinTypeInputs, account_index \in AccountInputs,
          password \in Passwords :
         LET r == load(file, password)
         IN  IF ~r.ok
             THEN /\ ret' = ReturnedTo("get_new_receive_address", password, Err(LoadErrorTag(r)))
                  /\ UNCHANGED <<file, db, added>>
             ELSE IF account_index \notin
                       DOMAIN r.master_key.purpose.coin_types[coin_type_index].accounts
             THEN \* accounts.get_mut(&account_index).unwrap() panics
                  /\ ret' = ReturnedTo("get_new_receive_address", password, Panic)
                  /\ UNCHANGED <<file, db, added>>
             ELSE /\ Cardinality(Nodes(r.master_key)) < MaxNodes
                  /\ LET k == new_receive_keypair(r.master_key, coin_type_index,
                                                  account_index, None)
                         chain == r.master_key.purpose.coin_types[coin_type_index]
                                     .accounts[account_index].external_chain
                     IN  IF k.panic
                         THEN /\ ret' = ReturnedTo("get_new_receive_address", password, Panic)
                              /\ UNCHANGED <<file, db, added>>
                         ELSE /\ file' = Some(SavedBytes(k.self, password))
                              /\ db' = CachePublic(db, k.self)
                              /\ added' = added \cup {<<coin_type_index, account_index, 0,
                                                        NewKeypairIndex(chain, None)>>}
                              /\ ret' = Returned("get_new_receive_address",
                                                 [ok |-> TRUE,
                                                  address |->
                                                    Address_create(k.keypair.public_key)])
    /\ ForgetLastSend
    /\ UNCHANGED <<send_locals, cs_vars, unit_vars>>

\* variant: the addresses are listed in ascending index order
get_all_receive_addresses_command_Ascending ==
    /\ \E coin_type_index \in CoinTypeInputs, account_index \in AccountInputs :
         IF "master_public_key" \notin DOMAIN db
         THEN \* get("master_public_key").unwrap() panics
              ret' = Returned("get_all_receive_addresses", Panic)
         ELSE LET master_pub_key == Deserialize(db["master_public_key"])
              IN  IF account_index \notin
                       DOMAIN master_pub_key.purpose.coin_types[coin_type_index].accounts
                  THEN \* accounts.get(&account_index).unwrap() panics
                       ret' = Returned("get_all_receive_addresses", Panic)
                  ELSE ret' = [op |-> "get_all_receive_addresses",
                               coin_type_index |-> coin_type_index,
                               account_index |-> account_index,
                               value |-> [ok |-> TRUE,
                                          addresses |->
                                            Rev(get_all_receive_addresses(
                                                  master_pub_key, coin_type_index,
                                                  account_index))]]
    /\ ForgetLastSend
    /\ UNCHANGED <<file, db, added, send_locals, cs_vars, unit_vars>>

\* the command get_all_receive_addresses of main.rs: the receive addresses of
\* the cached public hierarchy
get_all_receive_addresses_command ==
    /\ \E coin_type_index \in CoinTypeInputs, account_index \in AccountInputs :
         IF "master_public_key" \notin DOMAIN db
         THEN \* get("master_public_key").unwrap() panics
              ret' = Returned("get_all_receive_addresses", Panic)
         ELSE LET master_pub_key == Deserialize(db["master_public_key"])
              IN  IF account_index \notin
                       DOMAIN master_pub_key.purpose.coin_types[coin_type_index].accounts
                  THEN \* accounts.get(&account_index).unwrap() panics
                       ret' = Returned("get_all_receive_addresses", Panic)
                  ELSE ret' = [op |-> "get_all_receive_addresses",
                               coin_type_index |-> coin_type_index,
                               account_index |-> account_index,
                               value |-> [ok |-> TRUE,
                                          addresses |->
                                            get_all_receive_addresses(
                                                master_pub_key, coin_type_index,
                                                account_index)]]
    /\ ForgetLastSend
    /\ UNCHANGED <<file, db, added, send_locals, cs_vars, unit_vars>>

\* send_transaction up to its first await: load the hierarchy, list the keypairs
SendCall ==
    /\ send_pc = "idle"
    /\ \E coin_type_index \in CoinTypeInputs, account_index \in AccountInputs,
          amount \in SendAmounts, fee \in SendFees, password \in Passwords :
         LET r == load(file, password)
         IN  IF ~r.ok
             THEN /\ ret' = ReturnedTo("send_transaction", password, Err(LoadErrorTag(r)))
                  /\ UNCHANGED send_locals
             ELSE IF account_index \notin
                       DOMAIN r.master_key.purpose.coin_types[coin_type_index].accounts
             THEN \* get_all_keypairs: accounts.get(&account_index).unwrap() panics
                  /\ ret' = ReturnedTo("send_transaction", password, Panic)
                  /\ UNCHANGED send_locals
             ELSE /\ Cardinality(Nodes(r.master_key)) < MaxNodes
                  /\ master_private_key' = r.master_key
                  /\ send_args' = [coin_type_index |-> coin_type_index,
                                   account_index |-> account_index,
                                   amount |-> amount, fee |-> fee, password |-> password]
                  /\ send_pc' = "await_utxos"
                  /\ ret' = None
    /\ send_tx' = None
    /\ send_before' = Some([file |-> file, db |-> db])
    /\ UNCHANGED <<file, db, added, cs_vars, unit_vars>>

\* get_keypairs_boxed_utxos fails
SendUtxosError ==
    /\ send_pc = "await_utxos"
    /\ get_all_keypairs(master_private_key, send_args.coin_type_index,
                        send_args.account_index) # << >>
    /\ ret' = Returned("send_transaction", Err("io_error"))
    /\ SendReset
    /\ UNCHANGED <<file, db, added, send_before, send_tx, cs_vars, unit_vars>>

\* get_keypairs_boxed_utxos returns the UTXOs; select_coins is entered
SendUtxosReply ==
    /\ send_pc = "await_utxos"
    /\ LET keypairs == get_all_keypairs(master_private_key, send_args.coin_type_index,
                                        send_args.account_index)
       IN  \E utxos \in IF keypairs = << >> THEN {EmptyBag} ELSE NetPools,
              overflow_checks \in BuildModes :
             /\ cs_algo' = "random_improve"
             /\ cs_in' = [pool |-> utxos, num_outputs |-> 1,
                          target |-> send_args.amount, fee_per_byte |-> send_args.fee,
                          overflow_checks |-> overflow_checks]
             /\ boxed_utxos' = utxos
             /\ target_plus_fee' = send_args.amount
    /\ selected_utxos' = EmptyBag
    /\ selected_amount' = 0
    /\ cs_pc' = "ri_phase1"
    /\ send_pc' = "select_coins"
    /\ UNCHANGED <<indices, considered, fallback_pool, cs_result>>
    /\ UNCHANGED <<file, db, ret, added, send_args, master_private_key, send_before, send_tx>>
    /\ UNCHANGED unit_vars

\* select_coins has returned: allocate the change key, build and sign the
\* transaction, hand it to the broadcast
SendSelected ==
    /\ send_pc = "select_coins"
    /\ cs_pc = "done"
    /\ IF ~cs_result.ok
       THEN /\ ret' = Returned("send_transaction",
                               IF cs_result = Panic THEN Panic
                               ELSE Err(cs_result.message))
            /\ SendReset
            /\ UNCHANGED send_tx
       ELSE LET change == cs_result.change
                chain == master_private_key.purpose.coin_types[send_args.coin_type_index]
                            .accounts[send_args.account_index].internal_chain
                k == new_change_keypair(master_private_key, send_args.coin_type_index,
                                        send_args.account_index, None)
                targets == <<[address |-> "recipient", value |-> send_args.amount]>>
                           \o IF change # None
                              THEN <<[address |-> Address_create(k.keypair.public_key),
                                      value |-> change.some]>>
                              ELSE << >>
            IN  \E all_p2pkh \in
                     IF BagToSet(cs_result.selected_utxos) = {} THEN {TRUE} ELSE BOOLEAN :
                  IF change # None /\ k.panic
                  THEN \* new_change_keypair panics
                       /\ ret' = Returned("send_transaction", Panic)
                       /\ SendReset
                       /\ UNCHANGED send_tx
                  ELSE IF all_p2pkh
                  THEN /\ master_private_key' = IF change # None THEN k.self
                                                ELSE master_private_key
                       /\ send_tx' = [vin |-> cs_result.selected_utxos,
                                      vout |-> targets,
                                      change |-> change,
                                      change_key |-> IF change # None
                                                     THEN Some(NewKeypairIndex(chain, None))
                                                     ELSE None]
                       /\ send_pc' = "await_broadcast"
                       /\ UNCHANGED <<ret, send_args>>
                  ELSE \* Transaction::create fails with UnsupportedScriptError
                       /\ ret' = Returned("send_transaction", Err("create_tx_error"))
                       /\ SendReset
                       /\ UNCHANGED send_tx
    /\ SelectReset
    /\ UNCHANGED <<file, db, added, send_before, unit_vars>>

\* variant: the hierarchy is saved although the broadcast failed
SendBroadcastError_Saves ==
    /\ send_pc = "await_broadcast"
    /\ ret' = Returned("send_transaction", Err("send_tx_error"))
    /\ file' = Some(SavedBytes(master_private_key, send_args.password))
    /\ db' = CachePublic(db, master_private_key)
    /\ SendReset
    /\ UNCHANGED <<added, send_before, send_tx, cs_vars, unit_vars>>

\* the broadcast fails
SendBroadcastError ==
    /\ send_pc = "await_broadcast"
    /\ ret' = Returned("send_transaction", Err("send_tx_error"))
    /\ SendReset
    /\ UNCHANGED <<file, db, added, send_before, send_tx, cs_vars, unit_vars>>

\* the broadcast succeeds: save the hierarchy, refresh the cache
SendBroadcastOk ==
    /\ send_pc = "await_broadcast"
    /\ file' = Some(SavedBytes(master_private_key, send_args.password))
    /\ db' = CachePublic(db, master_private_key)
    /\ added' = added \cup
                  IF send_tx.change_key # None
                  THEN {<<send_args.coin_type_index, send_args.account_index, 1,
                          send_tx.change_key.some>>}
                  ELSE {}
    /\ ret' = Returned("send_transaction",
                       [ok |-> TRUE,
                        total_amount |-> BagSum(send_tx.vin)
                                         + IF send_tx.change # None
                                           THEN send_tx.change.some ELSE 0])
    /\ SendReset
    /\ UNCHANGED <<send_before, send_tx, cs_vars, unit_vars>>

\* the steps of send_transaction; phase 1 cannot overflow and fall back to
\* largest_first on a reply of at most MaxNetUtxos UTXOs
SendStep ==
    \/ SendCall
    \/ SendUtxosError
    \/ SendUtxosReply
    \/ RIPhase1Step
    \/ RIAfterLoop
    \/ RIPhase2Step
    \/ RIReturn
    \/ SendSelected
    \/ SendBroadcastError
    \/ SendBroadcastOk

InitFacade ==
    /\ SelectIdle
    /\ FacadeAtStart
    /\ UnitIdle

\* one operation at a time
NextSeq ==
    \/ send_pc = "idle" /\ generate_mnemonic
    \/ send_pc = "idle" /\ send_passphrase
    \/ send_pc = "idle" /\ create_master_key
    \/ send_pc = "idle" /\ load_master_key
    \/ send_pc = "idle" /\ create_new_account
    \/ send_pc = "idle" /\ get_new_receive_address
    \/ send_pc = "idle" /\ get_all_receive_addresses_command
    \/ SendStep

SpecSeq == InitFacade /\ [][NextSeq]_vars

\* the application starts on a wallet file that an earlier session created
InitConc ==
    /\ SelectIdle
    /\ file = Some(SavedBytes(create_from_seed(generate_seed("m1", "p")).master_key, "pw"))
    /\ db = EmptyMap
    /\ ret = None
    /\ added = {}
    /\ SendIdle
    /\ send_before = None
    /\ UnitIdle

\* operations on the existing wallet; the synchronous ones run while
\* send_transaction is suspended at an await
NextConc ==
    \/ cs_pc = "idle" /\ load_master_key
    \/ cs_pc = "idle" /\ create_new_account
    \/ cs_pc = "idle" /\ get_new_receive_address
    \/ cs_pc = "idle" /\ get_all_receive_addresses_command
    \/ SendStep

SpecConc == InitConc /\ [][NextConc]_vars

(***************************************************************************)
(* Specification of the two select_coins functions                         *)
(***************************************************************************)
InitSelect ==
    /\ cs_algo \in {"random_improve", "largest_first"}
    /\ cs_in \in SelectInputs
    /\ boxed_utxos = cs_in.pool
    /\ selected_utxos = EmptyBag
    /\ selected_amount = 0
    /\ target_plus_fee = IF cs_algo = "random_improve" THEN cs_in.target ELSE 0
    /\ indices = EmptyBag
    /\ considered = 0
    /\ fallback_pool = None
    /\ cs_result = None
    /\ cs_pc = IF cs_algo = "random_improve" THEN "ri_phase1" ELSE "lf_loop"
    /\ FacadeAtStart
    /\ UnitIdle

NextSelect ==
    \/ RIPhase1Step
    \/ RIFallback
    \/ RIAfterLoop
    \/ RIPhase2Step
    \/ RIReturn
    \/ LFStep
    \/ LFExhausted

SpecSelect == InitSelect /\ [][NextSelect]_vars

(***************************************************************************)
(* Properties of coin selection                                            *)
(***************************************************************************)
\* the call has returned Ok
SelectOk == cs_pc = "done" /\ cs_result.ok

\* the call has returned Err
SelectErr == cs_pc = "done" /\ ~cs_result.ok /\ cs_result # Panic

\* the mathematical value of target + estimate_fee(number selected,
\* num_outputs + 1, fee_per_byte) for a result
ResultTargetPlusFee ==
    WideAdd(Wide(cs_in.target),
            <<0, estimate_fee(BagCardinality(cs_result.selected_utxos),
                              cs_in.num_outputs + 1, cs_in.fee_per_byte)>>)

\* the mathematical sum of the selected values of a result
ResultSum == <<0, BagSum(cs_result.selected_utxos)>>

\* the change of a result, None counted as 0
ResultChange == IF cs_result.change = None THEN 0 ELSE cs_result.change.some

\* C2: every successful result of random_improve::select_coins selects UTXOs
\* whose values sum to at least target + estimate_fee(number selected,
\* num_outputs + 1, fee_per_byte).
C2_SelectedCoversTargetPlusFee ==
    (cs_algo = "random_improve" /\ SelectOk)
        => WideLe(ResultTargetPlusFee, ResultSum)

\* C3: every successful result of either select_coins holds at most
\* MAX_INPUTS_PER_TX selected UTXOs.
C3_AtMostMaxInputs ==
    SelectOk => BagCardinality(cs_result.selected_utxos) <= MAX_INPUTS_PER_TX

\* C4: in every successful result of random_improve::select_coins the change
\* is the selected sum minus (target + fee for the number selected), and it is
\* None only when that difference is zero.
C4_ChangeIsSumMinusTargetPlusFee ==
    (cs_algo = "random_improve" /\ SelectOk)
        => LET d == WideSub(ResultSum, ResultTargetPlusFee)
           IN  IF cs_result.change = None THEN d = <<0, 0>>
               ELSE Wide(cs_result.change.some) = d

\* C8: when the pool empties before the selected sum reaches target plus fee,
\* random_improve::select_coins fails with the tag balance_insufficient.
C8_BalanceInsufficientTag ==
    (cs_algo = "random_improve" /\ SelectErr /\ fallback_pool = None)
        => cs_result.message = "balance_insufficient"

\* C9: in every successful result of random_improve::select_coins, target plus
\* change (None counted as 0) does not exceed the sum of the selected values.
C9_OutputsWithinInputs ==
    (cs_algo = "random_improve" /\ SelectOk)
        => WideLe(WideAdd(Wide(cs_in.target), Wide(ResultChange)), ResultSum)

Min(a, b) == IF a < b THEN a ELSE b

RECURSIVE TopK(_, _)
\* the bag of the k largest values of a pool: the prefix of length k of the
\* pool in descending value order
TopK(pool, k) ==
    IF k = 0 \/ BagToSet(pool) = {} THEN EmptyBag
    ELSE LET v == CHOOSE x \in BagToSet(pool) : \A w \in BagToSet(pool) : w <= x
             c == Min(CopiesIn(v, pool), k)
             rest == [x \in BagToSet(pool) \ {v} |-> pool[x]]
         IN  [x \in {v} |-> c] (+) TopK(rest, k - c)

\* largest_first::select_coins has been entered, directly or by the fallback
LFCalled == cs_algo = "largest_first" \/ fallback_pool # None

\* the pool largest_first::select_coins was called with
LFPool == IF cs_algo = "largest_first" THEN cs_in.pool ELSE fallback_pool.some

\* the mathematical value of target + estimate_fee(j, num_outputs + 1, fee_per_byte)
TargetPlusFeeAt(j) ==
    WideAdd(Wide(cs_in.target),
            <<0, estimate_fee(j, cs_in.num_outputs + 1, cs_in.fee_per_byte)>>)

\* the prefix of length j of the descending order reaches target plus fee
PrefixReaches(j) == WideLe(TargetPlusFeeAt(j), <<0, BagSum(TopK(LFPool, j))>>)

\* C7: a successful result of largest_first::select_coins is a prefix of the
\* descending value order whose sum reaches target + estimate_fee(prefix
\* length, num_outputs + 1, fee_per_byte), no shorter prefix reaches it, and
\* the change is sum - target_plus_fee when the sum is larger and None when
\* the two are equal.  Prefixes are taken from length 1, since the function
\* tests the sum after each append.
C7_ShortestPrefix ==
    (LFCalled /\ SelectOk)
        => LET k == BagCardinality(cs_result.selected_utxos)
           IN  /\ cs_result.selected_utxos = TopK(LFPool, k)
               /\ PrefixReaches(k)
               /\ \A j \in 1..MAX_INPUTS_PER_TX : j < k => ~PrefixReaches(j)
               /\ cs_result.change =
                    IF WideLt(TargetPlusFeeAt(k), ResultSum)
                    THEN Some(WideSub(ResultSum, TargetPlusFeeAt(k))[2])
                    ELSE None

(***************************************************************************)
(* Properties of the facade                                                *)
(***************************************************************************)
\* the private hierarchy stored in the wallet file
FileHierarchy == Deserialize(file.some.ciphertext_of)

\* the public hierarchy stored in the cache
CachedPublic == Deserialize(db["master_public_key"])

\* the last operation to return was a send_transaction that failed
SendFailed ==
    /\ send_pc = "idle"
    /\ ret # None
    /\ ret.op = "send_transaction"
    /\ ~ret.value.ok

\* C1: the wallet file and the cached public hierarchy are as they were when
\* send_transaction was called, for as long as the send has not returned
\* success: while it is in flight and after it has failed at any step.
C1_PersistOnlyAfterBroadcast ==
    (send_before # None /\ (send_pc # "idle" \/ SendFailed))
        => /\ file = send_before.some.file
           /\ db = send_before.some.db

\* a send has failed at the broadcast after it had allocated a change key
C1_Witness ==
    /\ SendFailed
    /\ ret.value = Err("send_tx_error")
    /\ send_tx # None
    /\ send_tx.change_key # None
    /\ file = send_before.some.file

\* C5: once no send is in flight, the wallet file holds every account and key
\* that a successful operation has added.
C5_NoLostUpdate ==
    (send_pc = "idle" /\ file # None) => added \subseteq Nodes(FileHierarchy)

\* the public chain mirrors the private chain
ChainMirrors(pub, priv) ==
    /\ pub.index = priv.index
    /\ pub.public_key = derive_public_key(priv.private_key)
    /\ DOMAIN pub.keys = DOMAIN priv.keys
    /\ \A i \in DOMAIN priv.keys : pub.keys[i] = derive_public_key(priv.keys[i].private_key)

\* the public hierarchy has the coin types, accounts and key indices of the
\* private one, and every node holds the xpub of the private key
Mirrors(pub, priv) ==
    /\ pub.public_key = derive_public_key(priv.private_key)
    /\ pub.purpose.public_key = derive_public_key(priv.purpose.private_key)
    /\ DOMAIN pub.purpose.coin_types = DOMAIN priv.purpose.coin_types
    /\ \A c \in DOMAIN priv.purpose.coin_types :
         LET pc == pub.purpose.coin_types[c]
             sc == priv.purpose.coin_types[c]
         IN  /\ pc.public_key = derive_public_key(sc.private_key)
             /\ DOMAIN pc.accounts = DOMAIN sc.accounts
             /\ \A a \in DOMAIN sc.accounts :
                  /\ pc.accounts[a].public_key = derive_public_key(sc.accounts[a].private_key)
                  /\ ChainMirrors(pc.accounts[a].external_chain, sc.accounts[a].external_chain)
                  /\ ChainMirrors(pc.accounts[a].internal_chain, sc.accounts[a].internal_chain)

\* C6: in sequential execution, after every facade operation the cached
\* master_public_key, when present, is the public hierarchy of the private
\* hierarchy stored in the wallet file.
C6_CacheMirrorsFile ==
    (send_pc = "idle" /\ "master_public_key" \in DOMAIN db)
        => file # None /\ Mirrors(CachedPublic, FileHierarchy)

\* a send has succeeded and left a change key in the file and in the cache
C6_Witness ==
    /\ send_pc = "idle"
    /\ ret # None
    /\ ret.op = "send_transaction"
    /\ ret.value.ok
    /\ "master_public_key" \in DOMAIN db
    /\ \E n \in Nodes(FileHierarchy) : Len(n) = 4 /\ n[3] = 1

\* C10: in the hierarchy create_from_seed builds, the key of coin type c is
\* the hardened child c of the purpose key (depth 2, child number 2^31 + c),
\* the two coin types have different keys, account keys are at depth 3 and
\* keypairs at depth 5.
C10_CoinTypeKeysDerived ==
    file # None =>
        LET cts == FileHierarchy.purpose.coin_types
        IN  /\ DOMAIN cts = {0, 1}
            /\ \A c \in DOMAIN cts :
                 /\ cts[c].private_key.depth = 2
                 /\ cts[c].private_key.child_number = HardenedBeBytes(c)
                 /\ \A a \in DOMAIN cts[c].accounts :
                      /\ cts[c].accounts[a].private_key.depth = 3
                      /\ \A i \in DOMAIN cts[c].accounts[a].external_chain.keys :
                           cts[c].accounts[a].external_chain.keys[i].private_key.depth = 5
                      /\ \A i \in DOMAIN cts[c].accounts[a].internal_chain.keys :
                           cts[c].accounts[a].internal_chain.keys[i].private_key.depth = 5
            /\ cts[0].private_key.key_data # cts[1].private_key.key_data

(***************************************************************************)
(* keys/bip44/private_hierarchy.rs, keys/bip44/public_hierarchy.rs:        *)
(* the operations a caller makes on the hierarchies themselves             *)
(***************************************************************************)
\* PublicChange::new_key: the chain afterwards and the key returned, or a
\* panic of derive_child_key(index).unwrap() that leaves the chain as it was
PublicChange_new_key(self) ==
    LET index == IF DOMAIN self.keys = {} THEN 0 ELSE MaxKey(self.keys) + 1
        \* one more than the largest key is 2^31 when that key is 2^31 - 1
        derived == IF DOMAIN self.keys # {} /\ MaxKey(self.keys) = MAX_CHILD_NUMBER
                   THEN DeriveErr("Child number out of bounds")
                   ELSE ExtendedPublicKey_derive_child_key(self.public_key, index)
    IN  IF ~derived.ok THEN [panic |-> TRUE, self |-> self, key |-> None]
        ELSE [panic |-> FALSE,
              self |-> [self EXCEPT !.keys = Insert(self.keys, index, derived.key)],
              key |-> derived.key]

\* MasterPublicKey::new_receive_key (the coin type and the account exist)
new_receive_key(self, coin_type_index, account_index) ==
    LET account == self.purpose.coin_types[coin_type_index].accounts[account_index]
        r == PublicChange_new_key(account.external_chain)
    IN  [panic |-> r.panic,
         self |-> [self EXCEPT
                     !.purpose.coin_types[coin_type_index].accounts[account_index]
                        .external_chain = r.self],
         key |-> r.key]

\* MasterPublicKey::new_change_key (the coin type and the account exist)
new_change_key(self, coin_type_index, account_index) ==
    LET account == self.purpose.coin_types[coin_type_index].accounts[account_index]
        r == PublicChange_new_key(account.internal_chain)
    IN  [panic |-> r.panic,
         self |-> [self EXCEPT
                     !.purpose.coin_types[coin_type_index].accounts[account_index]
                        .internal_chain = r.self],
         key |-> r.key]

\* MasterPublicKey::add_account / PublicPurpose::add_account (the coin type exists)
MasterPublicKey_add_account(self, coin_type_index, account) ==
    [self EXCEPT !.purpose.coin_types[coin_type_index].accounts =
                    Insert(@, account.index, PublicAccount_create(account))]

\* MasterPrivateKey::get_private_key: the hierarchy afterwards and the
\* Option returned
get_private_key(self, coin_type_index, account_index, internal, key_index) ==
    IF coin_type_index \notin DOMAIN self.purpose.coin_types
    THEN [panic |-> FALSE, self |-> self, key |-> None]
    ELSE IF account_index \notin
              DOMAIN self.purpose.coin_types[coin_type_index].accounts
    THEN [panic |-> FALSE, self |-> self, key |-> None]
    ELSE LET account == self.purpose.coin_types[coin_type_index].accounts[account_index]
             change == IF internal THEN account.internal_chain
                       ELSE account.external_chain
             r == IF internal
                  THEN new_change_keypair(self, coin_type_index, account_index,
                                          Some(key_index))
                  ELSE new_receive_keypair(self, coin_type_index, account_index,
                                           Some(key_index))
         IN  IF key_index \in DOMAIN change.keys
             THEN [panic |-> FALSE, self |-> self,
                   key |-> Some(change.keys[key_index].private_key)]
             ELSE IF r.panic THEN [panic |-> TRUE, self |-> self, key |-> None]
             ELSE [panic |-> FALSE, self |-> r.self,
                   key |-> Some(r.keypair.private_key)]

\* the seeds a hierarchy is made from
KeySeeds == {generate_seed(mnemonic, "p") : mnemonic \in Mnemonics}

\* accounts plus keypairs a hierarchy can hold before the model stops growing it
MaxTreeNodes == 3

\* the coin types a caller can name: the two that exist and one that does not
KeyCoinTypeInputs == {BITCOIN_INDEX, BITCOIN_TESTNET_INDEX, 2}

\* the key_index arguments a caller can pass
KeyIndexInputs == {2, MAX_CHILD_NUMBER - 1}

\* the child numbers a caller asks derive_child_key for
DeriveInputs == {0, MAX_CHILD_NUMBER - 1}


\* the chains of a hierarchy as <<coin type, account, internal>>
Chains(tree) ==
    UNION {{<<c, a, internal>> : a \in DOMAIN tree.purpose.coin_types[c].accounts,
                                 internal \in BOOLEAN}
           : c \in DOMAIN tree.purpose.coin_types}

\* the chain of a hierarchy (private or public) named by <<coin type, account, internal>>
ChainAt(tree, ch) ==
    LET account == tree.purpose.coin_types[ch[1]].accounts[ch[2]]
    IN  IF ch[3] THEN account.internal_chain ELSE account.external_chain

\* the coin type or the account named by the caller does not exist:
\* get_mut(..).unwrap() panics
MissingAccount(tree, coin_type_index, account_index) ==
    \/ coin_type_index \notin DOMAIN tree.purpose.coin_types
    \/ account_index \notin DOMAIN tree.purpose.coin_types[coin_type_index].accounts

\* ExtendedPrivateKey::create_master_key(seed, testnet) is called
KeyCreateMasterKey ==
    /\ private_tree = None
    /\ \E seed \in KeySeeds, testnet \in BOOLEAN :
         /\ call' = [op |-> "create_master_key", seed |-> seed, testnet |-> testnet]
         /\ result' = ExtendedPrivateKey_create_master_key(seed, testnet)
    /\ UNCHANGED <<private_tree, public_tree, cs_vars, facade_vars>>

\* MasterPrivateKey::create_from_seed(seed), then
\* MasterPublicKey::create_from_key of the hierarchy
KeyCreateFromSeed ==
    /\ private_tree = None
    /\ \E seed \in KeySeeds :
         LET created == create_from_seed(seed)
         IN  /\ call' = [op |-> "create_from_seed", seed |-> seed]
             /\ IF created.panic
                THEN /\ result' = Panic
                     /\ UNCHANGED <<private_tree, public_tree>>
                ELSE /\ result' = [ok |-> TRUE]
                     /\ private_tree' = created.master_key
                     /\ public_tree' = MasterPublicKey_create_from_key(created.master_key)
    /\ UNCHANGED <<cs_vars, facade_vars>>

\* MasterPrivateKey::add_account(coin_type_index), then
\* MasterPublicKey::add_account(coin_type_index, &account) with the account
\* it returned
KeyAddAccount ==
    /\ private_tree # None
    /\ Cardinality(Nodes(private_tree)) < MaxTreeNodes
    /\ \E coin_type_index \in KeyCoinTypeInputs :
         /\ call' = [op |-> "add_account", coin_type_index |-> coin_type_index]
         /\ IF coin_type_index \notin {BITCOIN_INDEX, BITCOIN_TESTNET_INDEX}
            THEN \* the assert! of Purpose::add_account panics
                 /\ result' = Panic
                 /\ UNCHANGED <<private_tree, public_tree>>
            ELSE LET r == add_account(private_tree, coin_type_index)
                 IN  IF r.panic
                     THEN /\ result' = Panic
                          /\ UNCHANGED <<private_tree, public_tree>>
                     ELSE /\ result' = [ok |-> TRUE, account |-> r.account]
                          /\ private_tree' = r.self
                          /\ public_tree' = MasterPublicKey_add_account(
                                               public_tree, coin_type_index, r.account)
    /\ UNCHANGED <<cs_vars, facade_vars>>

\* a call of MasterPrivateKey::new_receive_keypair or new_change_keypair
NewKeypairCall(internal) ==
    /\ Cardinality(Nodes(private_tree)) < MaxTreeNodes
    /\ \E coin_type_index \in CoinTypeInputs, account_index \in AccountInputs,
          key_index \in {None} \cup {Some(i) : i \in KeyIndexInputs} :
         /\ call' = [op |-> IF internal THEN "new_change_keypair"
                            ELSE "new_receive_keypair",
                     coin_type_index |-> coin_type_index,
                     account_index |-> account_index,
                     key_index |-> key_index]
         /\ IF MissingAccount(private_tree, coin_type_index, account_index)
            THEN /\ result' = Panic
                 /\ UNCHANGED private_tree
            ELSE LET r == IF internal
                          THEN new_change_keypair(private_tree, coin_type_index,
                                                  account_index, key_index)
                          ELSE new_receive_keypair(private_tree, coin_type_index,
                                                   account_index, key_index)
                 IN  IF r.panic
                     THEN /\ result' = Panic
                          /\ UNCHANGED private_tree
                     ELSE /\ result' = [ok |-> TRUE, keypair |-> r.keypair]
                          /\ private_tree' = r.self
    /\ UNCHANGED <<public_tree, cs_vars, facade_vars>>

\* MasterPrivateKey::new_receive_keypair
KeyNewReceiveKeypair ==
    /\ private_tree # None
    /\ NewKeypairCall(FALSE)

\* MasterPrivateKey::new_change_keypair
KeyNewChangeKeypair ==
    /\ private_tree # None
    /\ NewKeypairCall(TRUE)

\* MasterPrivateKey::get_private_key
KeyGetPrivateKey ==
    /\ private_tree # None
    /\ Cardinality(Nodes(private_tree)) < MaxTreeNodes
    /\ \E coin_type_index \in CoinTypeInputs, account_index \in AccountInputs,
          internal \in BOOLEAN, key_index \in KeyIndexInputs :
         LET r == get_private_key(private_tree, coin_type_index, account_index,
                                  internal, key_index)
         IN  /\ call' = [op |-> "get_private_key",
                         coin_type_index |-> coin_type_index,
                         account_index |-> account_index,
                         internal |-> internal, key_index |-> key_index]
             /\ IF r.panic
                THEN /\ result' = Panic
                     /\ UNCHANGED private_tree
                ELSE /\ result' = [ok |-> TRUE, key |-> r.key]
                     /\ private_tree' = r.self
    /\ UNCHANGED <<public_tree, cs_vars, facade_vars>>

\* a call of MasterPublicKey::new_receive_key or new_change_key
NewKeyCall(internal) ==
    /\ \E coin_type_index \in CoinTypeInputs, account_index \in AccountInputs :
         /\ call' = [op |-> IF internal THEN "new_change_key" ELSE "new_receive_key",
                     coin_type_index |-> coin_type_index,
                     account_index |-> account_index]
         /\ IF MissingAccount(public_tree, coin_type_index, account_index)
            THEN /\ result' = Panic
                 /\ UNCHANGED public_tree
            ELSE /\ Cardinality(Nodes(public_tree)) < MaxTreeNodes
                 /\ LET r == IF internal
                             THEN new_change_key(public_tree, coin_type_index,
                                                 account_index)
                             ELSE new_receive_key(public_tree, coin_type_index,
                                                  account_index)
                    IN  IF r.panic
                        THEN /\ result' = Panic
                             /\ UNCHANGED public_tree
                        ELSE /\ result' = [ok |-> TRUE, key |-> r.key]
                             /\ public_tree' = r.self
    /\ UNCHANGED <<private_tree, cs_vars, facade_vars>>

\* MasterPublicKey::new_receive_key
PubNewReceiveKey ==
    /\ public_tree # None
    /\ NewKeyCall(FALSE)

\* MasterPublicKey::new_change_key
PubNewChangeKey ==
    /\ public_tree # None
    /\ NewKeyCall(TRUE)

\* MasterPublicKey::get_all_addresses
PubGetAllAddresses ==
    /\ public_tree # None
    /\ \E coin_type_index \in CoinTypeInputs, account_index \in AccountInputs :
         /\ call' = [op |-> "get_all_addresses",
                     coin_type_index |-> coin_type_index,
                     account_index |-> account_index]
         /\ result' = IF MissingAccount(public_tree, coin_type_index, account_index)
                      THEN Panic
                      ELSE [ok |-> TRUE,
                            addresses |-> get_all_addresses(public_tree, coin_type_index,
                                                            account_index)]
    /\ UNCHANGED <<private_tree, public_tree, cs_vars, facade_vars>>

\* the chains whose keys derive_child_key is called on: those of account 0
\* of Bitcoin
DeriveParents(tree) == {ch \in Chains(tree) : ch[1] = BITCOIN_INDEX /\ ch[2] = 0}

\* ExtendedPrivateKey::derive_child_key on the key of a chain
KeyDeriveChildKey ==
    /\ private_tree # None
    /\ \E ch \in DeriveParents(private_tree), num \in DeriveInputs, hardened \in BOOLEAN :
         LET parent == ChainAt(private_tree, ch).private_key
         IN  /\ call' = [op |-> "derive_child_key", parent |-> parent, num |-> num,
                         hardened |-> hardened]
             /\ result' = derive_child_key(parent, num, hardened)
    /\ UNCHANGED <<private_tree, public_tree, cs_vars, facade_vars>>

\* ExtendedPublicKey::derive_child_key on the key of a chain
PubDeriveChildKey ==
    /\ public_tree # None
    /\ \E ch \in DeriveParents(public_tree), num \in DeriveInputs :
         LET parent == ChainAt(public_tree, ch).public_key
         IN  /\ call' = [op |-> "public_derive_child_key", parent |-> parent,
                         num |-> num]
             /\ result' = ExtendedPublicKey_derive_child_key(parent, num)
    /\ UNCHANGED <<private_tree, public_tree, cs_vars, facade_vars>>

InitKeys ==
    /\ SelectIdle
    /\ FacadeAtStart
    /\ UnitIdle

NextKeys ==
    \/ KeyCreateMasterKey
    \/ KeyCreateFromSeed
    \/ KeyAddAccount
    \/ KeyNewReceiveKeypair
    \/ KeyNewChangeKeypair
    \/ KeyGetPrivateKey
    \/ PubNewReceiveKey
    \/ PubNewChangeKey
    \/ PubGetAllAddresses
    \/ KeyDeriveChildKey
    \/ PubDeriveChildKey

SpecKeys == InitKeys /\ [][NextKeys]_vars

(***************************************************************************)
(* Properties of the key hierarchies                                       *)
(***************************************************************************)
\* the chain a new_receive_keypair or new_change_keypair call names
CalledChain(c) ==
    <<c.coin_type_index, c.account_index, c.op = "new_change_keypair">>

\* the step is a call of new_receive_keypair or new_change_keypair that returned
NewKeypairReturned ==
    /\ private_tree # None
    /\ call'.op \in {"new_receive_keypair", "new_change_keypair"}
    /\ result'.ok

\* C11: a new_receive_keypair or new_change_keypair call that returns has
\* stored the keypair it derived and returned under the index given, or,
\* with no index given, under 0 on an empty chain and under one more than
\* the largest index otherwise, and has changed nothing else of the chain's
\* keys; a chain that held the indices 0..n-1 holds 0..n after an
\* allocation with no index given.
C11_NewKeypairIndex ==
    [][NewKeypairReturned =>
         LET old == ChainAt(private_tree, CalledChain(call'))
             new == ChainAt(private_tree', CalledChain(call'))
             n == Cardinality(DOMAIN old.keys)
             idx == IF call'.key_index # None THEN call'.key_index.some
                    ELSE IF DOMAIN old.keys = {} THEN 0
                    ELSE MaxKey(old.keys) + 1
         IN  /\ DOMAIN new.keys = DOMAIN old.keys \cup {idx}
             /\ new.keys[idx] = result'.keypair
             /\ result'.keypair.private_key
                  = derive_child_key(old.private_key, idx, FALSE).key
             /\ result'.keypair.public_key
                  = derive_public_key(result'.keypair.private_key)
             /\ (call'.key_index = None /\ DOMAIN old.keys = 0..(n - 1))
                  => DOMAIN new.keys = 0..n]_vars

\* a key was allocated with no index given on a chain whose only key had
\* index 2: it has index 3
C11_Witness ==
    /\ call # None
    /\ call.op \in {"new_receive_keypair", "new_change_keypair"}
    /\ call.key_index = None
    /\ result.ok
    /\ DOMAIN ChainAt(private_tree, CalledChain(call)).keys = {2, 3}
    /\ ChainAt(private_tree, CalledChain(call)).keys[3] = result.keypair

\* the step is an add_account call that returned
AddAccountReturned ==
    /\ private_tree # None
    /\ call'.op = "add_account"
    /\ result'.ok

\* C12: an add_account call that returns has added exactly one account to
\* the coin type named, under index 0 when the coin type had none and under
\* one more than the largest index otherwise, with that index, an external
\* chain of index 0 and an internal chain of index 1, both without keys; the
\* accounts of the other coin type are as before, and the account indices
\* of every coin type are 0..n-1.
C12_AddAccountIndex ==
    [][AddAccountReturned =>
         LET c == call'.coin_type_index
             old == private_tree.purpose.coin_types
             new == private_tree'.purpose.coin_types
             idx == IF DOMAIN old[c].accounts = {} THEN 0
                    ELSE MaxKey(old[c].accounts) + 1
         IN  /\ DOMAIN new[c].accounts = DOMAIN old[c].accounts \cup {idx}
             /\ idx \notin DOMAIN old[c].accounts
             /\ \A a \in DOMAIN old[c].accounts : new[c].accounts[a] = old[c].accounts[a]
             /\ new[c].accounts[idx] = result'.account
             /\ new[c].accounts[idx].index = idx
             /\ new[c].accounts[idx].external_chain.index = 0
             /\ new[c].accounts[idx].internal_chain.index = 1
             /\ new[c].accounts[idx].external_chain.keys = EmptyMap
             /\ new[c].accounts[idx].internal_chain.keys = EmptyMap
             /\ \A d \in DOMAIN old \ {c} : new[d] = old[d]
             /\ \A d \in DOMAIN new :
                  DOMAIN new[d].accounts = 0..(Cardinality(DOMAIN new[d].accounts) - 1)]_vars

\* a second account was added to a coin type while the other coin type had
\* an account
C12_Witness ==
    /\ call # None
    /\ call.op = "add_account"
    /\ result.ok
    /\ result.account.index = 1
    /\ DOMAIN private_tree.purpose.coin_types[call.coin_type_index].accounts = {0, 1}
    /\ \E d \in DOMAIN private_tree.purpose.coin_types :
         /\ d # call.coin_type_index
         /\ DOMAIN private_tree.purpose.coin_types[d].accounts = {0}

\* every account of the first hierarchy is in the second with the same keys
\* and chain keys, and every keypair of its chains is in the second under
\* the same index
Preserved(before, after) ==
    \A c \in DOMAIN before.purpose.coin_types :
      /\ c \in DOMAIN after.purpose.coin_types
      /\ after.purpose.coin_types[c].private_key = before.purpose.coin_types[c].private_key
      /\ \A a \in DOMAIN before.purpose.coin_types[c].accounts :
           /\ a \in DOMAIN after.purpose.coin_types[c].accounts
           /\ LET old == before.purpose.coin_types[c].accounts[a]
                  new == after.purpose.coin_types[c].accounts[a]
              IN  /\ new.index = old.index
                  /\ new.private_key = old.private_key
                  /\ new.external_chain.private_key = old.external_chain.private_key
                  /\ new.internal_chain.private_key = old.internal_chain.private_key
                  /\ \A i \in DOMAIN old.external_chain.keys :
                       /\ i \in DOMAIN new.external_chain.keys
                       /\ new.external_chain.keys[i] = old.external_chain.keys[i]
                  /\ \A i \in DOMAIN old.internal_chain.keys :
                       /\ i \in DOMAIN new.internal_chain.keys
                       /\ new.internal_chain.keys[i] = old.internal_chain.keys[i]

\* C13: no add_account, new_receive_keypair, new_change_keypair or
\* get_private_key call removes an account or a keypair from the private
\* hierarchy or changes the keypair stored under an index that exists.
C13_HierarchyOnlyGrows ==
    [][private_tree # None =>
         /\ private_tree' # None
         /\ private_tree'.private_key = private_tree.private_key
         /\ Preserved(private_tree, private_tree')]_vars

\* get_private_key was called for an index that was missing and has derived
\* it into a chain that holds another keypair
C13_Witness ==
    /\ call # None
    /\ call.op = "get_private_key"
    /\ result.ok
    /\ result.key # None
    /\ LET chain == ChainAt(private_tree, <<call.coin_type_index, call.account_index,
                                            call.internal>>)
       IN  /\ DOMAIN chain.keys = {0, call.key_index}
           /\ chain.keys[call.key_index].private_key = result.key.some

\* the chains both hierarchies have
CommonChains == Chains(private_tree) \cap Chains(public_tree)

\* C14: on a chain for which the public and the private hierarchy hold the
\* same key indices, an allocation with no index on the private side
\* (Change::new_keypair) and one on the public side (PublicChange::new_key)
\* both return, store under the same index, and the public side returns the
\* extended public key of the private key the private side returns.
C14_PublicMatchesPrivate ==
    private_tree # None =>
        \A ch \in CommonChains :
            LET private == ChainAt(private_tree, ch)
                public == ChainAt(public_tree, ch)
                s == Change_new_keypair(private, None)
                p == PublicChange_new_key(public)
            IN  DOMAIN public.keys = DOMAIN private.keys
                    => /\ ~s.panic
                       /\ ~p.panic
                       /\ DOMAIN p.self.keys = DOMAIN s.self.keys
                       /\ p.key = derive_public_key(s.keypair.private_key)
                       /\ p.key = s.keypair.public_key

\* every key of a private or public chain carries the flag
ChainFlagged(chain, flag) ==
    /\ (IF "private_key" \in DOMAIN chain THEN chain.private_key
        ELSE chain.public_key).testnet = flag
    /\ \A i \in DOMAIN chain.keys :
         IF "private_key" \in DOMAIN chain
         THEN /\ chain.keys[i].private_key.testnet = flag
              /\ chain.keys[i].public_key.testnet = flag
         ELSE chain.keys[i].testnet = flag

\* the key of the coin type, of every account, of every chain and every
\* stored key below it carries the flag
CoinTypeFlagged(coin_type, flag) ==
    /\ (IF "private_key" \in DOMAIN coin_type THEN coin_type.private_key
        ELSE coin_type.public_key).testnet = flag
    /\ \A a \in DOMAIN coin_type.accounts :
         /\ (IF "private_key" \in DOMAIN coin_type THEN coin_type.accounts[a].private_key
             ELSE coin_type.accounts[a].public_key).testnet = flag
         /\ ChainFlagged(coin_type.accounts[a].external_chain, flag)
         /\ ChainFlagged(coin_type.accounts[a].internal_chain, flag)

\* C15: in the private hierarchy made by create_from_seed and in the public
\* hierarchy made from it, after any allocations, the coin-type key, the
\* account keys, the chain keys and the stored keys under coin type c are
\* flagged testnet exactly when c = 1, and so is every address
\* get_all_addresses lists for coin type c.
C15_TestnetFlagFollowsCoinType ==
    private_tree # None =>
        /\ \A c \in DOMAIN private_tree.purpose.coin_types :
             CoinTypeFlagged(private_tree.purpose.coin_types[c], c = BITCOIN_TESTNET_INDEX)
        /\ \A c \in DOMAIN public_tree.purpose.coin_types :
             /\ CoinTypeFlagged(public_tree.purpose.coin_types[c], c = BITCOIN_TESTNET_INDEX)
             /\ \A a \in DOMAIN public_tree.purpose.coin_types[c].accounts :
                  LET addresses == get_all_addresses(public_tree, c, a)
                  IN  \A j \in 1..Len(addresses) :
                        addresses[j].testnet = (c = BITCOIN_TESTNET_INDEX)
        /\ (call.op = "get_all_addresses" /\ result.ok)
             => \A j \in 1..Len(result.addresses) :
                  result.addresses[j].testnet = (call.coin_type_index = BITCOIN_TESTNET_INDEX)

\* get_all_addresses has listed the addresses of a Bitcoin Testnet account
\* that has a key, while Bitcoin has an account too
C15_Witness ==
    /\ call # None
    /\ call.op = "get_all_addresses"
    /\ result.ok
    /\ Len(result.addresses) > 0
    /\ \A c \in CoinTypeInputs : private_tree.purpose.coin_types[c].accounts # EmptyMap
    /\ call.coin_type_index = BITCOIN_TESTNET_INDEX

\* C18: the extended private key ExtendedPrivateKey::create_master_key
\* returns has a key_data that is a valid secp256k1 scalar: a seed whose HMAC
\* left half is 0 or not below the curve order n yields no key.
C18_MasterKeyIsValidScalar ==
    (call # None /\ call.op = "create_master_key") => ValidScalar(result.key_data)

\* the index a derive_child_key call is asked for, as the bytes hashed
AskedChild(c) ==
    IF c.op = "derive_child_key" /\ c.hardened THEN HardenedBeBytes(c.num)
    ELSE ToBeBytes(c.num)

\* the key is the child of the parent for a child number after the one
\* asked, and every child number from the one asked up to it is invalid
RECURSIVE RetriedChild(_, _, _, _)
RetriedChild(key, parent, num, hardened) ==
    LET i == IF hardened THEN HardenedBeBytes(num) ELSE ToBeBytes(num)
    IN  IF InvalidChild(parent, i)
        THEN num < MAX_CHILD_NUMBER /\ RetriedChild(key, parent, num + 1, hardened)
        ELSE /\ key.child_number = i
             /\ key.chain_code = Append(parent.chain_code, i)
             /\ key.depth = parent.depth + 1

\* C19: a derive_child_key call, private or public, for an index that is
\* invalid (I_L >= n, or a zero child key) ends in one of two ways: it
\* returns the child for the first valid index after it, with that index as
\* child_number, or it returns the derive error for an index that has
\* reached 2^31.
C19_RetryEnds ==
    (/\ call # None
     /\ call.op \in {"derive_child_key", "public_derive_child_key"}
     /\ InvalidChild(call.parent, AskedChild(call)))
        => \/ /\ result.ok
              /\ RetriedChild(result.key, call.parent, call.num,
                              call.op = "derive_child_key" /\ call.hardened)
           \/ result = DeriveErr("Child number out of bounds")

(***************************************************************************)
(* Properties of the operations that load the wallet file                  *)
(***************************************************************************)
\* the step is a return of load_master_key, create_new_account or
\* get_new_receive_address, or a return of send_transaction from its load
LoadingCallReturned ==
    /\ ret' # None
    /\ "password" \in DOMAIN ret'
    /\ ret'.op \in {"load_master_key", "create_new_account",
                    "get_new_receive_address", "send_transaction"}

\* the step is a send_transaction call that has loaded the wallet file
SendLoaded == send_pc = "idle" /\ send_pc' = "await_utxos"

\* C16: load_master_key, create_new_account, get_new_receive_address and
\* send_transaction return io_error when the wallet file cannot be read and
\* wrong_password_error when the password is not the one the file was
\* encrypted with, and leave the file and the cache as they were in both
\* cases; send_transaction goes on past its load only with a file that can
\* be read and the right password.
C16_LoadErrorsChangeNothing ==
    [][/\ LoadingCallReturned =>
            /\ file = None => ret'.value = Err("io_error")
            /\ (file # None /\ file.some.key # ret'.password)
                 => ret'.value = Err("wrong_password_error")
            /\ ret'.value \in {Err("io_error"), Err("wrong_password_error")}
                 => file' = file /\ db' = db
       /\ SendLoaded => file # None /\ file.some.key = send_args'.password]_vars

\* get_new_receive_address was called with a wrong password on a wallet
\* that exists and is cached
C16_Witness ==
    /\ ret # None
    /\ ret.op = "get_new_receive_address"
    /\ ret.value = Err("wrong_password_error")
    /\ file # None
    /\ file.some.key # ret.password
    /\ "master_public_key" \in DOMAIN db

(***************************************************************************)
(* utils/base58.rs, keys/address.rs from_str and to_string,                *)
(* main.rs validate_address                                                *)
(* A string is the sequence of its characters, a byte string the sequence  *)
(* of its bytes.  A BigUint is the sequence of its digits to some base,    *)
(* most significant first and without leading zeros; zero is << >>.        *)
(***************************************************************************)
BASE58_ALPHABET ==
    <<"1", "2", "3", "4", "5", "6", "7", "8", "9", "A", "B", "C", "D", "E", "F",
      "G", "H", "J", "K", "L", "M", "N", "P", "Q", "R", "S", "T", "U", "V", "W",
      "X", "Y", "Z", "a", "b", "c", "d", "e", "f", "g", "h", "i", "j", "k", "m",
      "n", "o", "p", "q", "r", "s", "t", "u", "v", "w", "x", "y", "z">>

\* BASE58_DECIMAL.contains_key
IsBase58(c) == \E i \in DOMAIN BASE58_ALPHABET : BASE58_ALPHABET[i] = c

\* BASE58_DECIMAL.get
BASE58_DECIMAL(c) == (CHOOSE i \in DOMAIN BASE58_ALPHABET : BASE58_ALPHABET[i] = c) - 1

\* str::trim_start_matches, and the leading bytes a BigUint does not keep
RECURSIVE TrimStart(_, _)
TrimStart(s, x) == IF s # << >> /\ Head(s) = x THEN TrimStart(Tail(s), x) ELSE s

\* BigUint division of the number with the given digits by d: the quotient
\* and the remainder
RECURSIVE DivRem(_, _, _, _, _)
DivRem(digits, base, d, rem, quotient) ==
    IF digits = << >>
    THEN [quotient |-> TrimStart(quotient, 0), remainder |-> rem]
    ELSE LET cur == rem * base + Head(digits)
         IN  DivRem(Tail(digits), base, d, cur % d, Append(quotient, cur \div d))

\* the loop `while decimal_value > zero` of encode and of decode: the
\* remainders of the repeated division by `to`, the last one first
RECURSIVE Remainders(_, _, _, _)
Remainders(decimal_value, from, to, acc) ==
    IF decimal_value = << >>
    THEN acc
    ELSE LET d == DivRem(decimal_value, from, to, 0, << >>)
         IN  Remainders(d.quotient, from, to, <<d.remainder>> \o acc)

\* utils/base58.rs encode
base58_encode(bytes) ==
    LET decimal_value == TrimStart(bytes, 0)
        count == Len(bytes) - Len(decimal_value)
        digits == Remainders(decimal_value, 256, 58, << >>)
    IN  [i \in 1..count |-> "1"] \o [i \in DOMAIN digits |-> BASE58_ALPHABET[digits[i] + 1]]

\* utils/base58.rs decode
base58_decode(s) ==
    IF \E i \in DOMAIN s : ~IsBase58(s[i])
    THEN None
    ELSE LET orig_len == Len(s)
             trimmed == TrimStart(s, "1")
             len == Len(trimmed)
             decimal_value == TrimStart([i \in DOMAIN trimmed |-> BASE58_DECIMAL(trimmed[i])], 0)
             bytes == Remainders(decimal_value, 58, 256, << >>)
         IN  Some([i \in 1..(orig_len - len) |-> 0] \o bytes)

\* the sum of the bytes, the i-th one weighted by weight + i - 1 (summed by
\* halves; the singleton sets bind each argument to its value, so that it is
\* evaluated once)
RECURSIVE WeightedSum(_, _)
WeightedSum(bytes, weight) ==
    CHOOSE sum \in
        {IF b = << >> THEN 0
         ELSE IF Len(b) = 1 THEN w * b[1]
         ELSE WeightedSum(SubSeq(b, 1, Len(b) \div 2), w)
                + WeightedSum(SubSeq(b, Len(b) \div 2 + 1, Len(b)), w + Len(b) \div 2)
         : b \in {bytes}, w \in {weight}} : TRUE

\* sha256::Hash::hash: 32 bytes, each of which depends on every byte of the
\* input and on its length (the digest itself is not computed);
\* WeightedSum(b, j) = w0 + j * (w1 - w0)
sha256(bytes) ==
    CHOOSE digest \in
        {CHOOSE d \in {[j \in 1..32 |-> (w0 + j * (w1 - w0) + 31 * j + Len(b)) % 256]
                       : w0 \in {WeightedSum(b, 0)}, w1 \in {WeightedSum(b, 1)}} : TRUE
         : b \in {bytes}} : TRUE

\* keys/address.rs to_string
Address_to_string(self) ==
    LET hash160_prefix == <<IF self.testnet THEN 111 ELSE 0>> \o self.hash160
        checksum == sha256(sha256(hash160_prefix))
    IN  base58_encode(hash160_prefix \o SubSeq(checksum, 1, 4))

\* variant: the checksum is not compared
Address_from_str_NoChecksum(s) ==
    LET bytes == base58_decode(s)
    IN  IF bytes = None THEN Err("Invalid character")
        ELSE IF Len(bytes.some) # 25 THEN Err("Invalid length")
        ELSE LET b == bytes.some
                 prefix == b[1]
             IN  IF prefix # 0 /\ prefix # 111 THEN Err("Invalid prefix")
                 ELSE [ok |-> TRUE,
                       address |-> [testnet |-> prefix = 111,
                                    hash160 |-> SubSeq(b, 2, Len(b) - 4)]]

\* keys/address.rs from_str
Address_from_str(s) ==
    LET bytes == base58_decode(s)
    IN  IF bytes = None THEN Err("Invalid character")
        ELSE IF Len(bytes.some) # 25 THEN Err("Invalid length")
        ELSE LET b == bytes.some
                 prefix == b[1]
                 hash == SubSeq(b, 2, Len(b) - 4)
                 checksum_target == SubSeq(b, Len(b) - 3, Len(b))
                 checksum == sha256(sha256(SubSeq(b, 1, Len(b) - 4)))
             IN  IF prefix # 0 /\ prefix # 111 THEN Err("Invalid prefix")
                 ELSE IF checksum_target # SubSeq(checksum, 1, 4)
                 THEN Err("Checksum failed")
                 ELSE [ok |-> TRUE,
                       address |-> [testnet |-> prefix = 111, hash160 |-> hash]]

\* main.rs validate_address
validate_address(address, coin_type_index) ==
    LET parsed == Address_from_str(address)
    IN  IF parsed.ok
        THEN LET addr_coin_index == IF parsed.address.testnet THEN 1 ELSE 0
             IN  IF coin_type_index # addr_coin_index
                 THEN Err("Wrong address type")
                 ELSE [ok |-> TRUE]
        ELSE Err(parsed.message)

(***************************************************************************)
(* Calls of validate_address and of Address::from_str                      *)
(***************************************************************************)
\* the hashes the addresses are made of
Hash160Inputs ==
    {[i \in 1..20 |-> 0], [i \in 1..20 |-> 255], [i \in 1..20 |-> i],
     [i \in 1..20 |-> IF i = 20 THEN 1 ELSE 0]}

\* the version bytes: mainnet, testnet and P2SH
VersionInputs == {0, 111, 5}

\* version and hash, also with a hash one byte short and one byte long
PayloadInputs ==
    {<<version>> \o hash160 : version \in VersionInputs, hash160 \in Hash160Inputs}
      \cup {[i \in 1..20 |-> 0], [i \in 1..22 |-> IF i = 1 THEN 111 ELSE 7]}

\* the payloads encoded with their checksum and with a wrong last byte
EncodedInputs ==
    UNION {LET checksum == SubSeq(sha256(sha256(payload)), 1, 4)
           IN  {base58_encode(payload \o checksum),
                base58_encode(payload \o [checksum EXCEPT ![4] = (@ + 1) % 256])}
           : payload \in PayloadInputs}

\* a string as it is, with a character more or less, and with characters
\* that are not in the alphabet
Variations(s) ==
    {s, <<"1">> \o s, Tail(s), Append(s, "z"), Append(s, "0"),
     [s EXCEPT ![Len(s)] = "l"], <<"O">> \o s}

AddressInputs == UNION {Variations(s) : s \in EncodedInputs} \cup {<< >>, <<"1">>, <<" ">>}

\* the coin types of the application and one it does not have
AddressCoinTypeInputs == {BITCOIN_INDEX, BITCOIN_TESTNET_INDEX, 2}

ValidateAddress ==
    /\ call # None
    /\ call.op = "validate_address"
    /\ result = None
    /\ result' = validate_address(call.address, call.coin_type_index)
    /\ UNCHANGED <<private_tree, public_tree, call, cs_vars, facade_vars>>

\* Address::from_str followed, when it succeeds, by to_string
ParseAddress ==
    /\ call # None
    /\ call.op = "from_str"
    /\ result = None
    /\ LET parsed == Address_from_str(call.address)
       IN  result' = IF parsed.ok
                     THEN [ok |-> TRUE, address |-> parsed.address,
                           string |-> Address_to_string(parsed.address)]
                     ELSE parsed
    /\ UNCHANGED <<private_tree, public_tree, call, cs_vars, facade_vars>>

InitAddress ==
    /\ SelectIdle
    /\ FacadeAtStart
    /\ private_tree = None
    /\ public_tree = None
    /\ result = None
    /\ call \in {[op |-> "validate_address", address |-> address,
                  coin_type_index |-> coin_type_index]
                 : address \in AddressInputs, coin_type_index \in AddressCoinTypeInputs}
                \cup {[op |-> "from_str", address |-> address] : address \in AddressInputs}

NextAddress ==
    \/ ValidateAddress
    \/ ParseAddress

SpecAddress == InitAddress /\ [][NextAddress]_vars

(***************************************************************************)
(* Properties of validate_address                                          *)
(***************************************************************************)
ValidateAddressReturned ==
    call # None /\ call.op = "validate_address" /\ result # None

\* the string decodes to 25 bytes: a version byte 0x00 or 0x6F, 20 bytes and
\* the first 4 bytes of the double hash of the 21 bytes before
WellFormedAddress(s) ==
    LET bytes == base58_decode(s)
    IN  /\ bytes # None
        /\ Len(bytes.some) = 25
        /\ bytes.some[1] \in {0, 111}
        /\ SubSeq(bytes.some, 22, 25) = SubSeq(sha256(sha256(SubSeq(bytes.some, 1, 21))), 1, 4)

\* the network of the version byte is the one of the coin type
NetworkMatches(s, coin_type_index) ==
    LET version == base58_decode(s).some[1]
    IN  \/ version = 0 /\ coin_type_index = BITCOIN_INDEX
        \/ version = 111 /\ coin_type_index = BITCOIN_TESTNET_INDEX

ParseErrors == {"Invalid character", "Invalid length", "Invalid prefix", "Checksum failed"}

\* C17: validate_address returns Ok exactly for a string that Base58-decodes
\* to 25 bytes with version byte 0x00 or 0x6F and the double-hash checksum
\* of the first 21 bytes in the last 4, and whose version is the one of the
\* coin type (0x00 with 0, 0x6F with 1); a well-formed address of another
\* network is answered with "Wrong address type", and every other string
\* with a parse error.
C17_ValidateAddress ==
    ValidateAddressReturned =>
        LET well_formed == WellFormedAddress(call.address)
            matches == NetworkMatches(call.address, call.coin_type_index)
        IN  /\ result = [ok |-> TRUE] <=> (well_formed /\ matches)
            /\ (well_formed /\ ~matches) => result = Err("Wrong address type")
            /\ ~well_formed => result \in {Err(message) : message \in ParseErrors}

\* a testnet address was accepted for Bitcoin Testnet
C17_Witness ==
    /\ ValidateAddressReturned
    /\ call.coin_type_index = BITCOIN_TESTNET_INDEX
    /\ result = [ok |-> TRUE]
    /\ base58_decode(call.address).some[1] = 111

(***************************************************************************)
(* transactions/transaction.rs create, transactions/script.rs, utils/hex.rs *)
(* A u32 that may exceed the integers of the checker is the sequence of    *)
(* its four bytes, least significant first, as to_le_bytes gives them.     *)
(***************************************************************************)
HEX_DIGITS == <<"0", "1", "2", "3", "4", "5", "6", "7", "8", "9",
                "a", "b", "c", "d", "e", "f">>

\* utils/hex.rs bytes_to_hex: two lower-case digits for every byte
RECURSIVE bytes_to_hex(_)
bytes_to_hex(bytes) ==
    CHOOSE hex_str \in
        {IF b = << >> THEN << >>
         ELSE <<HEX_DIGITS[(Head(b) \div 16) + 1], HEX_DIGITS[(Head(b) % 16) + 1]>>
                \o bytes_to_hex(Tail(b))
         : b \in {bytes}} : TRUE

\* transactions/script.rs p2pkh_script_pub_key: the words of the script
p2pkh_script_pub_key(pubkey_hash) ==
    <<"OP_DUP", "OP_HASH160", "OP_PUSHBYTES_20", pubkey_hash,
      "OP_EQUALVERIFY", "OP_CHECKSIG">>

\* transactions/script.rs ScriptType::to_string
ScriptType_to_string(script_type) == CASE script_type = "P2PKH" -> "p2pkh"

\* transactions/transaction.rs TransactionInput::create
TransactionInput_create(utxo_box) ==
    IF utxo_box.output.scriptpubkey_type = "p2pkh"
    THEN [ok |-> TRUE,
          input |-> [txid |-> utxo_box.utxo.txid,
                     vout |-> utxo_box.utxo.vout,
                     prevout |-> utxo_box.output,
                     scriptsig |-> "",
                     scriptsig_asm |-> << >>,
                     witness |-> None,
                     is_coinbase |-> FALSE,
                     sequence |-> <<255, 255, 255, 255>>]]
    ELSE Err(utxo_box.output.scriptpubkey_type)

\* transactions/transaction.rs TransactionOutput::create
TransactionOutput_create(target_address, amount, scriptpubkey_type) ==
    [scriptpubkey |-> "",
     scriptpubkey_asm |-> p2pkh_script_pub_key(bytes_to_hex(target_address.hash160)),
     scriptpubkey_type |-> ScriptType_to_string(scriptpubkey_type),
     scriptpubkey_address |-> Address_to_string(target_address),
     value |-> amount]

\* variant: the inputs are in the reverse order of the UTXOs
Transaction_create_Reversed(utxo_boxes, targets) ==
    LET tx_ins == [i \in DOMAIN utxo_boxes |->
                       TransactionInput_create(utxo_boxes[Len(utxo_boxes) + 1 - i])]
        tx_outs == [j \in DOMAIN targets |->
                       TransactionOutput_create(targets[j].address, targets[j].amount, "P2PKH")]
        failed == {i \in DOMAIN tx_ins : ~tx_ins[i].ok}
    IN  IF failed # {}
        THEN tx_ins[CHOOSE i \in failed : \A k \in failed : i <= k]
        ELSE [ok |-> TRUE,
              transaction |-> [txid |-> "",
                               version |-> 1,
                               locktime |-> 0,
                               vin |-> [i \in DOMAIN tx_ins |-> tx_ins[i].input],
                               vout |-> tx_outs,
                               size |-> None,
                               weight |-> None,
                               fee |-> None,
                               status |-> None]]

\* transactions/transaction.rs Transaction::create; collecting the inputs
\* into a Result stops at the first input that is an error
Transaction_create(utxo_boxes, targets) ==
    LET tx_ins == [i \in DOMAIN utxo_boxes |-> TransactionInput_create(utxo_boxes[i])]
        tx_outs == [j \in DOMAIN targets |->
                       TransactionOutput_create(targets[j].address, targets[j].amount, "P2PKH")]
        failed == {i \in DOMAIN tx_ins : ~tx_ins[i].ok}
    IN  IF failed # {}
        THEN tx_ins[CHOOSE i \in failed : \A k \in failed : i <= k]
        ELSE [ok |-> TRUE,
              transaction |-> [txid |-> "",
                               version |-> 1,
                               locktime |-> 0,
                               vin |-> [i \in DOMAIN tx_ins |-> tx_ins[i].input],
                               vout |-> tx_outs,
                               size |-> None,
                               weight |-> None,
                               fee |-> None,
                               status |-> None]]

(***************************************************************************)
(* Calls of Transaction::create and of TransactionInput::create            *)
(***************************************************************************)
MaxTxInputs == 2

MaxTargets == 2

\* the sequences over a set with at most the given length
SeqsUpTo(set, max) == UNION {[1..n -> set] : n \in 0..max}

\* UTXOs with the output they spend: two transactions, two output indexes,
\* a P2PKH output or a P2WPKH one
UTXOBoxInputs ==
    {[utxo |-> [txid |-> txid, vout |-> vout, value |-> 1000],
      output |-> [scriptpubkey |-> "", scriptpubkey_asm |-> "",
                  scriptpubkey_type |-> scriptpubkey_type,
                  scriptpubkey_address |-> "", value |-> 1000]]
     : txid \in {"t1", "t2"}, vout \in {0, 1}, scriptpubkey_type \in {"p2pkh", "v0_p2wpkh"}}

\* a mainnet and a testnet address, each with one of two amounts
TargetInputs ==
    {[address |-> address, amount |-> amount]
     : address \in {[testnet |-> FALSE, hash160 |-> [i \in 1..20 |-> i]],
                    [testnet |-> TRUE, hash160 |-> [i \in 1..20 |-> 255]]},
       amount \in {546, 1000}}

TxCreate ==
    /\ call # None
    /\ call.op = "Transaction::create"
    /\ result = None
    /\ result' = Transaction_create(call.boxed_utxos, call.targets)
    /\ UNCHANGED <<private_tree, public_tree, call, cs_vars, facade_vars>>

TxInputCreate ==
    /\ call # None
    /\ call.op = "TransactionInput::create"
    /\ result = None
    /\ result' = TransactionInput_create(call.utxo_box)
    /\ UNCHANGED <<private_tree, public_tree, call, cs_vars, facade_vars>>

InitTx ==
    /\ SelectIdle
    /\ FacadeAtStart
    /\ private_tree = None
    /\ public_tree = None
    /\ result = None
    /\ call \in {[op |-> "Transaction::create", boxed_utxos |-> utxo_boxes,
                  targets |-> targets]
                 : utxo_boxes \in SeqsUpTo(UTXOBoxInputs, MaxTxInputs),
                   targets \in SeqsUpTo(TargetInputs, MaxTargets)}
                \cup {[op |-> "TransactionInput::create", utxo_box |-> utxo_box]
                      : utxo_box \in UTXOBoxInputs}

NextTx ==
    \/ TxCreate
    \/ TxInputCreate

SpecTx == InitTx /\ [][NextTx]_vars

(***************************************************************************)
(* Properties of Transaction::create                                       *)
(***************************************************************************)
TxCreateReturned ==
    call # None /\ call.op = "Transaction::create" /\ result # None

\* C20: Transaction::create fails with an UnsupportedScriptError when the
\* previous output of some UTXO is not of type p2pkh; otherwise the
\* transaction has version 1, locktime 0, one input for every UTXO in the
\* order given, with the txid and the vout of the UTXO, an empty scriptSig
\* and the sequence 0xFFFFFFFF, and one P2PKH output for every target in the
\* order given, with the value of the target.
C20_TransactionCreate ==
    TxCreateReturned =>
        LET utxos == call.boxed_utxos
            targets == call.targets
        IN  IF \E i \in DOMAIN utxos : utxos[i].output.scriptpubkey_type # "p2pkh"
            THEN /\ ~result.ok
                 /\ \E i \in DOMAIN utxos :
                       /\ utxos[i].output.scriptpubkey_type # "p2pkh"
                       /\ result = Err(utxos[i].output.scriptpubkey_type)
            ELSE /\ result.ok
                 /\ result.transaction.version = 1
                 /\ result.transaction.locktime = 0
                 /\ Len(result.transaction.vin) = Len(utxos)
                 /\ \A i \in DOMAIN utxos :
                       LET input == result.transaction.vin[i]
                       IN  /\ input.txid = utxos[i].utxo.txid
                           /\ input.vout = utxos[i].utxo.vout
                           /\ input.scriptsig = ""
                           /\ input.scriptsig_asm = << >>
                           /\ input.sequence = <<255, 255, 255, 255>>
                 /\ Len(result.transaction.vout) = Len(targets)
                 /\ \A j \in DOMAIN targets :
                       LET output == result.transaction.vout[j]
                       IN  /\ output.value = targets[j].amount
                           /\ output.scriptpubkey_type = "p2pkh"
                           /\ output.scriptpubkey_asm[1] = "OP_DUP"
                           /\ output.scriptpubkey_asm[4] = bytes_to_hex(targets[j].address.hash160)

\* a transaction was created from two different P2PKH UTXOs for two
\* different targets
C20_Witness ==
    /\ TxCreateReturned
    /\ result.ok
    /\ Len(call.boxed_utxos) = 2
    /\ call.boxed_utxos[1] # call.boxed_utxos[2]
    /\ Len(call.targets) = 2
    /\ call.targets[1] # call.targets[2]

(***************************************************************************)
(* coin_selection/fee_estimation.rs and utils/varint.rs on the whole range *)
(* of their arguments.  A number is the sequence of its digits to the base *)
(* 2^15, least significant first and without leading zeros, so that every  *)
(* product of two digits is within the integers of the checker.            *)
(***************************************************************************)
\* the digits of the number whose i-th digit, before the carries, is x[i]
RECURSIVE Carry(_, _)
Carry(x, c) ==
    IF x = << >>
    THEN IF c = 0 THEN << >> ELSE <<c % 32768>> \o Carry(<< >>, c \div 32768)
    ELSE <<(Head(x) + c) % 32768>> \o Carry(Tail(x), (Head(x) + c) \div 32768)

\* the digits without leading zeros
RECURSIVE Canon(_)
Canon(x) ==
    IF x # << >> /\ x[Len(x)] = 0 THEN Canon(SubSeq(x, 1, Len(x) - 1)) ELSE x

\* the number n, for an integer of the checker
NatOf(n) == Canon(Carry(<<n>>, 0))

NatDigit(x, i) == IF i <= Len(x) THEN x[i] ELSE 0

NatAdd(x, y) ==
    LET n == IF Len(x) < Len(y) THEN Len(y) ELSE Len(x)
    IN  Canon(Carry([i \in 1..n |-> NatDigit(x, i) + NatDigit(y, i)], 0))

RECURSIVE NatTimes(_, _)
NatTimes(x, y) ==
    IF x = << >> THEN << >>
    ELSE NatAdd(Canon(Carry([i \in DOMAIN y |-> Head(x) * y[i]], 0)),
                IF NatTimes(Tail(x), y) = << >> THEN << >>
                ELSE <<0>> \o NatTimes(Tail(x), y))

RECURSIVE NatLt(_, _)
NatLt(x, y) ==
    IF Len(x) # Len(y) THEN Len(x) < Len(y)
    ELSE IF x = << >> THEN FALSE
    ELSE IF x[Len(x)] # y[Len(y)] THEN x[Len(x)] < y[Len(y)]
    ELSE NatLt(SubSeq(x, 1, Len(x) - 1), SubSeq(y, 1, Len(y) - 1))

NatLe(x, y) == x = y \/ NatLt(x, y)

\* 2^32 and 2^64
TwoTo32 == <<0, 0, 4>>

TwoTo64 == <<0, 0, 0, 0, 16>>

\* x modulo 2^32, and modulo 2^64
WrapU32(x) == Canon(<<NatDigit(x, 1), NatDigit(x, 2), NatDigit(x, 3) % 4>>)

WrapU64(x) ==
    Canon(<<NatDigit(x, 1), NatDigit(x, 2), NatDigit(x, 3), NatDigit(x, 4),
            NatDigit(x, 5) % 16>>)

\* the result of a u32 operation whose mathematical result is x: a panic in
\* a build with overflow checks and the wrapped value in one without
U32Result(x, overflow_checks) ==
    IF NatLt(x, TwoTo32) THEN [panic |-> FALSE, value |-> x]
    ELSE IF overflow_checks THEN [panic |-> TRUE]
    ELSE [panic |-> FALSE, value |-> WrapU32(x)]

\* the same for u64
U64Result(x, overflow_checks) ==
    IF NatLt(x, TwoTo64) THEN [panic |-> FALSE, value |-> x]
    ELSE IF overflow_checks THEN [panic |-> TRUE]
    ELSE [panic |-> FALSE, value |-> WrapU64(x)]

\* utils/varint.rs encode: the length of the encoding
varint_encode_len(num) ==
    IF NatLt(num, NatOf(253)) THEN 1
    ELSE IF NatLt(num, NatOf(65536)) THEN 3
    ELSE IF NatLt(num, TwoTo32) THEN 5
    ELSE 9

\* size += a * b, on u32
U32AddProduct(size, a, b, overflow_checks) ==
    IF size.panic THEN size
    ELSE LET product == U32Result(NatTimes(a, b), overflow_checks)
         IN  IF product.panic THEN product
             ELSE U32Result(NatAdd(size.value, product.value), overflow_checks)

\* coin_selection/fee_estimation.rs estimate_transaction_size, with the
\* width of its u32 arithmetic
estimate_transaction_size_u32(num_inputs, num_outputs, overflow_checks) ==
    LET size1 == [panic |-> FALSE, value |-> NatOf(4)]
        size2 == U32AddProduct(size1, NatOf(varint_encode_len(num_inputs)), NatOf(1),
                               overflow_checks)
        size3 == U32AddProduct(size2, num_inputs, NatOf(TX_INPUT_SIZE), overflow_checks)
        size4 == U32AddProduct(size3, NatOf(varint_encode_len(num_outputs)), NatOf(1),
                               overflow_checks)
        size5 == U32AddProduct(size4, num_outputs, NatOf(TX_OUTPUT_SIZE), overflow_checks)
    IN  U32AddProduct(size5, NatOf(4), NatOf(1), overflow_checks)

\* coin_selection/fee_estimation.rs estimate_fee, with the width of its u64
\* multiplication
estimate_fee_u64(num_inputs, num_outputs, fee_per_byte, overflow_checks) ==
    LET size == estimate_transaction_size_u32(num_inputs, num_outputs, overflow_checks)
    IN  IF size.panic THEN size
        ELSE U64Result(NatTimes(size.value, fee_per_byte), overflow_checks)

(***************************************************************************)
(* Calls of estimate_transaction_size and of estimate_fee                  *)
(***************************************************************************)
\* u32::MAX and u64::MAX
U32Max == <<32767, 32767, 3>>

U64Max == <<32767, 32767, 32767, 32767, 15>>

\* numbers of inputs: around the steps of the VarInt length, the largest one
\* whose 147-fold fits in a u32 and the next, and u32::MAX
NumInputsInputs ==
    {NatOf(0), NatOf(1), NatOf(252), NatOf(253), NatOf(65535), NatOf(65536),
     NatOf(29217464), NatOf(29217465), U32Max}

\* numbers of outputs, chosen in the same way
NumOutputsInputs ==
    {NatOf(0), NatOf(1), NatOf(2), NatOf(252), NatOf(253), NatOf(65536),
     NatOf(126322567), NatOf(126322568), U32Max}

\* fee rates: none, small ones, 2^63 and u64::MAX
FeePerByteInputs == {NatOf(0), NatOf(1), NatOf(3), <<0, 0, 0, 0, 8>>, U64Max}

FeeInit ==
    /\ SelectIdle
    /\ FacadeAtStart
    /\ private_tree = None
    /\ public_tree = None
    /\ result = None
    /\ call \in [op : {"estimate_transaction_size"}, num_inputs : NumInputsInputs,
                 num_outputs : NumOutputsInputs, overflow_checks : BuildModes]
                \cup
                [op : {"estimate_fee"}, num_inputs : {NatOf(0), NatOf(1), NatOf(2049)},
                 num_outputs : {NatOf(1), NatOf(2)}, fee_per_byte : FeePerByteInputs,
                 overflow_checks : BuildModes]

EstimateTransactionSize ==
    /\ call # None
    /\ call.op = "estimate_transaction_size"
    /\ result = None
    /\ result' = estimate_transaction_size_u32(call.num_inputs, call.num_outputs,
                                               call.overflow_checks)
    /\ UNCHANGED <<private_tree, public_tree, call, cs_vars, facade_vars>>

EstimateFee ==
    /\ call # None
    /\ call.op = "estimate_fee"
    /\ result = None
    /\ result' = estimate_fee_u64(call.num_inputs, call.num_outputs, call.fee_per_byte,
                                  call.overflow_checks)
    /\ UNCHANGED <<private_tree, public_tree, call, cs_vars, facade_vars>>

NextFee ==
    \/ EstimateTransactionSize
    \/ EstimateFee

SpecFee == FeeInit /\ [][NextFee]_vars

(***************************************************************************)
(* Properties of the estimates                                             *)
(***************************************************************************)
\* 4 + len(VarInt(nIn)) + 147 nIn + len(VarInt(nOut)) + 34 nOut + 4
SizeFormula(num_inputs, num_outputs) ==
    NatAdd(NatOf(4 + varint_encode_len(num_inputs) + varint_encode_len(num_outputs) + 4),
           NatAdd(NatTimes(NatOf(147), num_inputs), NatTimes(NatOf(34), num_outputs)))

\* the size is not larger than the size for a larger number of inputs or of
\* outputs
SizeMonotonic(num_inputs, num_outputs, overflow_checks, size) ==
    /\ \A n \in NumInputsInputs :
          NatLe(num_inputs, n) =>
             LET larger == estimate_transaction_size_u32(n, num_outputs, overflow_checks)
             IN  ~larger.panic /\ NatLe(size, larger.value)
    /\ \A n \in NumOutputsInputs :
          NatLe(num_outputs, n) =>
             LET larger == estimate_transaction_size_u32(num_inputs, n, overflow_checks)
             IN  ~larger.panic /\ NatLe(size, larger.value)

\* C22: for all arguments, estimate_transaction_size(nIn, nOut) is
\* 4 + len(VarInt(nIn)) + 147 nIn + len(VarInt(nOut)) + 34 nOut + 4 and does
\* not decrease when an argument grows, and estimate_fee is that size times
\* fee_per_byte.
C22_SizeAndFee ==
    (call # None /\ result # None) =>
        /\ call.op = "estimate_transaction_size" =>
              /\ ~result.panic
              /\ result.value = SizeFormula(call.num_inputs, call.num_outputs)
              /\ SizeMonotonic(call.num_inputs, call.num_outputs, call.overflow_checks,
                               result.value)
        /\ call.op = "estimate_fee" =>
              /\ ~result.panic
              /\ result.value = NatTimes(SizeFormula(call.num_inputs, call.num_outputs),
                                         call.fee_per_byte)

(***************************************************************************)
(* Properties of the fallback of random_improve to largest_first           *)
(***************************************************************************)
\* largest_first::select_coins as a function of its arguments: what the loop
\* returns from the given pool, selection and sum
RECURSIVE LFLoop(_, _, _, _)
LFLoop(pool, selected, amount, in) ==
    IF BagToSet(pool) = {} THEN Err("balance_insufficient")
    ELSE LET v == LargestFirst(pool)
             out == IF in.overflow_checks /\ AddOverflows(amount, v)
                    THEN Panic
                    ELSE LFOutcome(selected (+) One(v), amount + v, in.num_outputs,
                                   in.target, in.fee_per_byte, in.overflow_checks)
         IN  IF out = None
             THEN LFLoop(pool (-) One(v), selected (+) One(v), amount + v, in)
             ELSE out

\* phase 1 is at its loop head with more than MAX_INPUTS_PER_TX UTXOs
\* selected, the sum short of target plus fee and UTXOs left in the pool
Phase1TooMany ==
    /\ cs_pc = "ri_phase1"
    /\ BagCardinality(selected_utxos) > MAX_INPUTS_PER_TX
    /\ U64Lt(selected_amount, target_plus_fee)
    /\ BagToSet(boxed_utxos) # {}

\* C25: when phase 1 of random_improve::select_coins has selected more than
\* MAX_INPUTS_PER_TX UTXOs, the sum has not reached target plus fee and
\* the pool is not empty, the call goes on as largest_first::select_coins
\* over the UTXOs not selected so far, and what it returns is what
\* largest_first::select_coins returns for these UTXOs with the num_outputs,
\* the target and the fee_per_byte of the call; it selects none of the UTXOs
\* phase 1 had selected.
C25_FallbackIsLargestFirst ==
    [][/\ Phase1TooMany =>
            /\ fallback_pool' = Some(cs_in.pool (-) selected_utxos)
            /\ boxed_utxos' = cs_in.pool (-) selected_utxos
            /\ selected_utxos' = EmptyBag
            /\ selected_amount' = 0
            /\ cs_pc' = "lf_loop"
       /\ (cs_algo = "random_improve" /\ fallback_pool # None /\ cs_pc' = "done") =>
            /\ cs_result' = LFLoop(fallback_pool.some, EmptyBag, 0, cs_in)
            /\ cs_result'.ok => cs_result'.selected_utxos \sqsubseteq fallback_pool.some]_vars

\* the fallback has returned a selection
C25_Witness ==
    /\ cs_algo = "random_improve"
    /\ fallback_pool # None
    /\ cs_pc = "done"
    /\ cs_result.ok
    /\ BagCardinality(cs_in.pool (-) fallback_pool.some) = MAX_INPUTS_PER_TX + 1

(***************************************************************************)
(* Properties of phase 2 of random_improve                                 *)
(***************************************************************************)
\* the mathematical value of target + estimate_fee(selected + 1,
\* num_outputs + 1, fee_per_byte) for the selection of the current state
Phase2TargetPlusFee ==
    WideAdd(Wide(cs_in.target),
            <<0, estimate_fee(BagCardinality(selected_utxos) + 1, cs_in.num_outputs + 1,
                              cs_in.fee_per_byte)>>)

\* the three conditions for a UTXO of value v, on mathematical values
Phase2Conditions(v) ==
    LET sum == <<0, BagSum(selected_utxos)>>
        ideal == WideTimes(2, Phase2TargetPlusFee)
        maximum == WideTimes(3, Phase2TargetPlusFee)
    IN  /\ WideLt(WideAbs(WideSub(ideal, WideAdd(sum, <<0, v>>))),
                  WideAbs(WideSub(ideal, sum)))
        /\ WideLe(WideAdd(sum, <<0, v>>), maximum)
        /\ BagCardinality(selected_utxos) + 1 <= MAX_INPUTS_PER_TX

\* a step of the call is, where it enters, runs or leaves phase 2, as the
\* claim below describes phase 2
Phase2StepsAsClaimed ==
    /\ (cs_pc # "ri_phase2" /\ cs_pc' = "ri_phase2") =>
         indices' = boxed_utxos /\ considered' = 0
    /\ (cs_pc = "ri_phase2" /\ cs_pc' = "ri_phase2") =>
         \E v \in BagToSet(indices) :
            /\ indices' = indices (-) One(v)
            /\ considered' = considered + 1
            /\ IF Phase2Conditions(v)
               THEN /\ selected_utxos' = selected_utxos (+) One(v)
                    /\ WideLe(<<0, BagSum(selected_utxos')>>,
                              WideTimes(3, Phase2TargetPlusFee))
               ELSE selected_utxos' = selected_utxos
    /\ (cs_pc = "ri_phase2" /\ cs_pc' = "done") =>
         /\ cs_result'.ok
         /\ BagToSet(indices) = {}

\* C26: phase 2 of random_improve::select_coins starts with every UTXO left
\* in the pool after phase 1 still to be considered, each of its steps
\* considers one of them and takes it off those to be considered, and it
\* returns when none is left; the UTXO considered is added to the selection
\* if and only if |ideal - (sum + value)| < |ideal - sum|,
\* sum + value <= maximum and selected + 1 <= MAX_INPUTS_PER_TX, with
\* ideal = 2 tpf, maximum = 3 tpf and tpf = target + estimate_fee(selected + 1,
\* num_outputs + 1, fee_per_byte), so that the sum after an addition is at
\* most 3 tpf.
C26_Phase2AddsIffCloser == [][Phase2StepsAsClaimed]_vars

(***************************************************************************)
(* Properties of the failures of largest_first                             *)
(***************************************************************************)
\* largest_first::select_coins has returned or panicked
LFDone == LFCalled /\ cs_pc = "done"

\* some prefix of at most MAX_INPUTS_PER_TX UTXOs of the descending order
\* reaches target plus fee
SomePrefixReaches ==
    \E j \in 1..Min(BagCardinality(LFPool), MAX_INPUTS_PER_TX) : PrefixReaches(j)

\* C27: largest_first::select_coins fails with balance_insufficient exactly
\* when the pool holds at most MAX_INPUTS_PER_TX UTXOs (none included) and
\* no prefix of its descending order reaches target plus fee, it fails with
\* max_input_count_exceeded exactly when the pool holds more and the
\* MAX_INPUTS_PER_TX largest do not reach target plus fee, and it returns a
\* selection whenever a prefix of at most MAX_INPUTS_PER_TX UTXOs reaches
\* target plus fee.
C27_LargestFirstFailures ==
    LFDone =>
        /\ cs_result = Err("balance_insufficient")
             <=> (BagCardinality(LFPool) <= MAX_INPUTS_PER_TX /\ ~SomePrefixReaches)
        /\ cs_result = Err("max_input_count_exceeded")
             <=> (BagCardinality(LFPool) > MAX_INPUTS_PER_TX /\ ~SomePrefixReaches)
        /\ SomePrefixReaches => cs_result.ok

(***************************************************************************)
(* Properties of the selection as a part of the pool                       *)
(***************************************************************************)
\* C28: in every successful result of largest_first::select_coins and of
\* random_improve::select_coins the selected UTXOs are a sub-multiset of the
\* pool the function was called with: every selected UTXO is one of the pool
\* and none is selected twice.  While the call runs, the selection, the
\* UTXOs left in the pool and, after a fallback, the UTXOs phase 1 had
\* selected make up the pool.
C28_SelectionWithinPool ==
    /\ SelectOk => cs_result.selected_utxos \sqsubseteq cs_in.pool
    /\ (cs_pc # "done" /\ fallback_pool = None)
         => selected_utxos (+) boxed_utxos = cs_in.pool
    /\ (cs_pc # "done" /\ fallback_pool # None)
         => selected_utxos (+) boxed_utxos = fallback_pool.some

\* random_improve has returned, after additions in phase 2, a selection that
\* holds the same value more than once and leaves a part of the pool out
C28_Witness ==
    /\ cs_algo = "random_improve"
    /\ SelectOk
    /\ considered > 0
    /\ \E v \in BagToSet(cs_result.selected_utxos) : CopiesIn(v, cs_result.selected_utxos) > 1
    /\ cs_result.selected_utxos # cs_in.pool

(***************************************************************************)
(* Properties of create_master_key                                         *)
(***************************************************************************)
\* the step is a create_master_key that completes
CreateMasterKeyCompletes ==
    /\ ret' = Returned("create_master_key", [ok |-> TRUE])
    /\ ret' # ret

\* the hierarchy has the coin types 0 and 1 and no account
FreshHierarchy(master_key) ==
    /\ DOMAIN master_key.purpose.coin_types = {BITCOIN_INDEX, BITCOIN_TESTNET_INDEX}
    /\ \A c \in DOMAIN master_key.purpose.coin_types :
          DOMAIN master_key.purpose.coin_types[c].accounts = {}

\* C29: create_master_key completes only from a cache that holds the
\* mnemonic and the passphrase, and these are entered only by
\* generate_mnemonic and send_passphrase; when it has returned, the cache
\* holds neither of them, the wallet file holds the hierarchy made from the
\* seed of that mnemonic and passphrase, with the coin types 0 and 1 and no
\* account, and the cached master_public_key is the public hierarchy of it,
\* with the same coin types and no account.
C29_CreateConsumesMnemonicAndPassphrase ==
    [][/\ CreateMasterKeyCompletes =>
            /\ "mnemonic" \in DOMAIN db
            /\ "passphrase" \in DOMAIN db
            /\ "mnemonic" \notin DOMAIN db'
            /\ "passphrase" \notin DOMAIN db'
            /\ file' # None
            /\ Deserialize(file'.some.ciphertext_of)
                 = create_from_seed(generate_seed(Deserialize(db["mnemonic"]),
                                                  Deserialize(db["passphrase"]))).master_key
            /\ FreshHierarchy(Deserialize(file'.some.ciphertext_of))
            /\ "master_public_key" \in DOMAIN db'
            /\ FreshHierarchy(Deserialize(db'["master_public_key"]))
            /\ Mirrors(Deserialize(db'["master_public_key"]),
                       Deserialize(file'.some.ciphertext_of))
       /\ ("mnemonic" \notin DOMAIN db /\ "mnemonic" \in DOMAIN db')
            => ret'.op = "generate_mnemonic"
       /\ ("passphrase" \notin DOMAIN db /\ "passphrase" \in DOMAIN db')
            => ret'.op = "send_passphrase"]_vars

\* create_master_key has completed for the mnemonic m2 and consumed it: the
\* file holds the hierarchy of its seed
C29_Witness ==
    /\ ret = Returned("create_master_key", [ok |-> TRUE])
    /\ file # None
    /\ file.some.key = "bad"
    /\ "mnemonic" \notin DOMAIN db
    /\ "passphrase" \notin DOMAIN db
    /\ Deserialize(file.some.ciphertext_of).private_key.key_data = [k |-> <<generate_seed("m2", "p")>>]


(***************************************************************************)
(* main.rs: get_new_receive_address and get_all_receive_addresses          *)
(***************************************************************************)
\* the step is a get_new_receive_address that returns an address
NewReceiveAddressReturned ==
    /\ ret' # None
    /\ ret'.op = "get_new_receive_address"
    /\ ret'.value.ok
    /\ send_pc = "idle"

\* the indices of the external chain of account a of coin type c
ExternalIndices(mk, c, a) == {n[4] : n \in {m \in Nodes(mk) : Len(m) = 4 /\ m[1] = c
                                                                /\ m[2] = a /\ m[3] = 0}}

MaxPlaintextLen == 2

PlaintextInputs == SeqsUpTo({0, 255}, MaxPlaintextLen)

\* the passwords of the calls, the empty one and the one of the test included
CryptPasswords == {"", "pw", "bad", "password1234"}

\* the hierarchies that are saved: a new one and one with an account and a key
SavedHierarchies ==
    LET fresh == create_from_seed(generate_seed("m1", "p")).master_key
        a == add_account(fresh, BITCOIN_TESTNET_INDEX).self
    IN  {fresh,
         create_from_seed(generate_seed("m2", "p")).master_key,
         a,
         new_receive_keypair(a, BITCOIN_TESTNET_INDEX, 0, None).self}

CryptInit ==
    /\ SelectIdle
    /\ FacadeAtStart
    /\ public_tree = None
    /\ result = None
    /\ \/ /\ private_tree = None
          /\ call \in [op : {"encrypt"}, plaintext : PlaintextInputs,
                       password : CryptPasswords, decrypt_password : CryptPasswords]
       \/ /\ private_tree \in {Some(mk) : mk \in SavedHierarchies}
          /\ call \in [op : {"save"}, password : CryptPasswords,
                       load_password : CryptPasswords]

\* encryption::encrypt(plaintext, password)
Encrypt ==
    /\ call.op = "encrypt"
    /\ result = None
    /\ result' = [ciphertext |-> encrypt(call.plaintext, call.password)]
    /\ UNCHANGED <<private_tree, public_tree, call, cs_vars, facade_vars>>

\* encryption::decrypt of the ciphertext, under the second password
Decrypt ==
    /\ call.op = "encrypt"
    /\ result # None
    /\ DOMAIN result = {"ciphertext"}
    /\ result' = [ciphertext |-> result.ciphertext,
                  decrypted |-> decrypt(result.ciphertext, call.decrypt_password)]
    /\ UNCHANGED <<private_tree, public_tree, call, cs_vars, facade_vars>>

\* self.save(path, password)
Save ==
    /\ call.op = "save"
    /\ file = None
    /\ file' = Some(SavedBytes(private_tree.some, call.password))
    /\ UNCHANGED <<db, ret, added, send_pc, send_args, master_private_key, send_before,
                   send_tx>>
    /\ UNCHANGED <<cs_vars, unit_vars>>

\* MasterPrivateKey::load(path, password) under the second password
Load ==
    /\ call.op = "save"
    /\ file # None
    /\ result = None
    /\ result' = load(file, call.load_password)
    /\ UNCHANGED <<private_tree, public_tree, call, cs_vars, facade_vars>>

NextCrypt ==
    \/ Encrypt
    \/ Decrypt
    \/ Save
    \/ Load

SpecCrypt == CryptInit /\ [][NextCrypt]_vars

load_word_list == [index \in 0..2047 |-> [word |-> index]]

\* view_bits::<Msb0> of one byte
ByteBits(byte) == [i \in 1..8 |-> (byte \div 2^(8 - i)) % 2]

\* view_bits::<Msb0> of a byte string
RECURSIVE view_bits(_)
view_bits(bytes) ==
    IF bytes = << >> THEN << >> ELSE ByteBits(Head(bytes)) \o view_bits(Tail(bytes))

\* slice.chunks(size): the last chunk holds what is left
chunks(bits, size) ==
    [k \in 1..((Len(bits) + size - 1) \div size) |->
        SubSeq(bits, (k - 1) * size + 1, Min(k * size, Len(bits)))]

\* BitField::load_be of a section of bits
RECURSIVE load_be(_)
load_be(section) ==
    IF section = << >> THEN 0
    ELSE 2 * load_be(SubSeq(section, 1, Len(section) - 1)) + section[Len(section)]

VALID_ENTROPY_LENGTHS == {128, 160, 192, 224, 256}

\* variant: the length of the supplied entropy is not compared
bip39_generate_mnemonic_AnyLength(entropy_length, entropy, rng_bytes) ==
    IF entropy_length \notin VALID_ENTROPY_LENGTHS THEN Panic
    ELSE LET word_list == load_word_list
             random_bytes == IF entropy # None THEN entropy.some ELSE rng_bytes
             hash_bits == view_bits(sha256(random_bytes))
             checksum_bits == SubSeq(hash_bits, 1, entropy_length \div 32)
             random_bits == view_bits(random_bytes) \o checksum_bits
             sections == chunks(random_bits, 11)
         IN  [ok |-> TRUE,
              mnemonic |-> [k \in DOMAIN sections |-> word_list[load_be(sections[k])]]]

\* bip39::generate_mnemonic(entropy_length, entropy); rng_bytes are the
\* entropy_length / 8 bytes the generator yields when no entropy is supplied
bip39_generate_mnemonic(entropy_length, entropy, rng_bytes) ==
    IF entropy_length \notin VALID_ENTROPY_LENGTHS THEN Panic
    ELSE IF entropy_length # (IF entropy = None THEN entropy_length
                              ELSE 8 * Len(entropy.some))
    THEN Panic
    ELSE LET word_list == load_word_list
             random_bytes == IF entropy # None THEN entropy.some ELSE rng_bytes
             hash_bits == view_bits(sha256(random_bytes))
             checksum_bits == SubSeq(hash_bits, 1, entropy_length \div 32)
             random_bits == view_bits(random_bytes) \o checksum_bits
             sections == chunks(random_bits, 11)
         IN  [ok |-> TRUE,
              mnemonic |-> [k \in DOMAIN sections |-> word_list[load_be(sections[k])]]]

\* the lengths a caller can name: the five of BIP-39, their neighbours,
\* multiples of 32 outside the range
EntropyLengthInputs == {0, 96, 127, 128, 129, 160, 192, 224, 256, 264, 288}

\* byte strings of one repeated byte
Filled(len, byte) == [i \in 1..len |-> byte]

\* the entropies a caller can supply: none, or bytes of a BIP-39 length, of a
\* length next to one, or none at all
EntropyInputs ==
    {None} \cup {Some(Filled(len, byte)) : len \in {0, 15, 16, 17, 20, 24, 28, 32, 33},
                                           byte \in {0, 12, 255}}

MnemonicInit ==
    /\ SelectIdle
    /\ FacadeAtStart
    /\ private_tree = None
    /\ public_tree = None
    /\ result = None
    /\ call \in [op : {"generate_mnemonic"}, entropy_length : EntropyLengthInputs,
                 entropy : EntropyInputs]

GenerateMnemonic ==
    /\ call.op = "generate_mnemonic"
    /\ result = None
    /\ \E byte \in IF call.entropy = None /\ call.entropy_length \in VALID_ENTROPY_LENGTHS
                   THEN {0, 12, 255} ELSE {0} :
         result' = bip39_generate_mnemonic(call.entropy_length, call.entropy,
                                           Filled(call.entropy_length \div 8, byte))
    /\ UNCHANGED <<private_tree, public_tree, call, cs_vars, facade_vars>>

NextMnemonic ==
    \/ GenerateMnemonic

SpecMnemonic == MnemonicInit /\ [][NextMnemonic]_vars

\* generate_mnemonic accepts the call
MnemonicAccepted ==
    /\ call.entropy_length \in VALID_ENTROPY_LENGTHS
    /\ call.entropy # None => 8 * Len(call.entropy.some) = call.entropy_length

\* the statement with the length as written, ENT/32 + ENT/11 words
C24_LengthAsWritten ==
    result # None =>
        IF MnemonicAccepted
        THEN /\ result.ok
             /\ Len(result.mnemonic)
                  = call.entropy_length \div 32 + call.entropy_length \div 11
             /\ Len(result.mnemonic) \in 12..24
        ELSE result = Panic

\* C24: generate_mnemonic(ENT, entropy) returns (ENT + ENT/32) / 11 words,
\* between 12 and 24, each a word of the list, for ENT in {128, 160, 192,
\* 224, 256} and an entropy that is absent or of ENT bits; it panics for
\* every other ENT and for every supplied entropy of another bit length.
C24_MnemonicLength ==
    result # None =>
        IF MnemonicAccepted
        THEN /\ result.ok
             /\ 11 * Len(result.mnemonic)
                  = call.entropy_length + call.entropy_length \div 32
             /\ Len(result.mnemonic) \in 12..24
             /\ \A k \in DOMAIN result.mnemonic :
                  result.mnemonic[k] \in {load_word_list[i] : i \in DOMAIN load_word_list}
        ELSE result = Panic

\* 32 bytes of entropy were supplied and 24 words returned, the last of which
\* ends in the checksum bits
C24_Witness ==
    /\ result # None
    /\ result.ok
    /\ call.entropy = Some(Filled(32, 255))
    /\ Len(result.mnemonic) = 24
    /\ result.mnemonic[24].word # 2047


(***************************************************************************)
(* transactions/transaction.rs sign_input and signature_hash,              *)
(* transactions/script.rs serialize, utils/hex.rs hex_to_bytes.            *)
(* A script string is the sequence of its words, a hex string the sequence *)
(* of its digits; the empty string has no words.                           *)
(***************************************************************************)
SIGHASH_ALL == 1

HexChars == {HEX_DIGITS[i] : i \in DOMAIN HEX_DIGITS}

\* u8::from_str_radix of one digit
HexValue(digit) == (CHOOSE i \in DOMAIN HEX_DIGITS : HEX_DIGITS[i] = digit) - 1

\* utils/hex.rs hex_to_bytes: None for an odd length or a pair that is no byte
hex_to_bytes(s) ==
    IF Len(s) % 2 # 0 THEN None
    ELSE IF \E i \in DOMAIN s : s[i] \notin HexChars THEN None
    ELSE Some([i \in 1..(Len(s) \div 2) |->
                  16 * HexValue(s[2 * i - 1]) + HexValue(s[2 * i])])

\* the first width bytes of to_le_bytes
RECURSIVE to_le_bytes(_, _)
to_le_bytes(num, width) ==
    IF width = 0 THEN << >> ELSE <<num % 256>> \o to_le_bytes(num \div 256, width - 1)

\* utils/varint.rs encode, for a number below 2^31
varint_encode(num) ==
    IF num < 253 THEN <<num>>
    ELSE IF num < 65536 THEN <<253>> \o to_le_bytes(num, 2)
    ELSE <<254>> \o to_le_bytes(num, 4)

\* the words of WORD_TO_OP_CODE that P2PKH scripts use
WORD_TO_OP_CODE ==
    [OP_DUP |-> 118, OP_EQUALVERIFY |-> 136, OP_HASH160 |-> 169, OP_CHECKSIG |-> 172]

\* the push of a data element: its length, then its bytes; None where
\* script::serialize returns None
PushBytes(elem_bytes) ==
    LET len == Len(elem_bytes)
    IN  IF len < 75 THEN Some(<<len>> \o elem_bytes)
        ELSE IF len < 256 THEN Some(<<76, len>> \o elem_bytes)
        ELSE IF len <= 520 THEN Some(<<77>> \o to_le_bytes(len, 2) \o elem_bytes)
        ELSE None

\* the bytes script::serialize collects for one word, or None where it returns
\* None or its hex_to_bytes(token).unwrap() panics
TokenBytes(token) ==
    IF token \in Seq(HexChars)
    THEN CHOOSE bytes \in {IF elem_bytes = None THEN None ELSE PushBytes(elem_bytes.some)
                           : elem_bytes \in {hex_to_bytes(token)}} : TRUE
    ELSE IF token \in DOMAIN WORD_TO_OP_CODE THEN Some(<<WORD_TO_OP_CODE[token]>>)
    ELSE IF token = "OP_PUSHBYTES_20" THEN Some(<< >>)
    ELSE None

\* the concatenation of byte strings
RECURSIVE Concat(_)
Concat(parts) ==
    CHOOSE bytes \in {IF p = << >> THEN << >> ELSE Head(p).some \o Concat(Tail(p))
                      : p \in {parts}} : TRUE

\* the concatenation of the parts, or None when a part is None
ConcatAll(parts) ==
    CHOOSE bytes \in {IF \E k \in DOMAIN p : p[k] = None THEN None ELSE Some(Concat(p))
                      : p \in {parts}} : TRUE

\* transactions/script.rs serialize: the length as a VarInt, then the bytes
script_serialize(words) ==
    CHOOSE script \in
        {IF bytes = None THEN None ELSE Some(varint_encode(Len(bytes.some)) \o bytes.some)
         : bytes \in {ConcatAll([k \in DOMAIN words |-> TokenBytes(words[k])])}} : TRUE

\* transactions/script.rs p2pkh_script_sig
p2pkh_script_sig(signature, pubkey) == <<signature, pubkey>>

\* TransactionInput::serialize, or None where an unwrap panics
TransactionInput_serialize(self) ==
    CHOOSE bytes \in
        {IF txid_bytes = None \/ script = None THEN None
         ELSE Some(Rev(txid_bytes.some) \o to_le_bytes(self.vout, 4) \o script.some
                   \o self.sequence)
         : txid_bytes \in {hex_to_bytes(self.txid)},
           script \in {script_serialize(self.scriptsig_asm)}} : TRUE

\* TransactionOutput::serialize, or None where the unwrap panics
TransactionOutput_serialize(self) ==
    CHOOSE bytes \in
        {IF script = None THEN None ELSE Some(to_le_bytes(self.value, 8) \o script.some)
         : script \in {script_serialize(self.scriptpubkey_asm)}} : TRUE

\* Transaction::serialize, or None where an unwrap panics
Transaction_serialize(self) ==
    CHOOSE bytes \in
        {IF ins = None \/ outs = None THEN None
         ELSE Some(to_le_bytes(self.version, 4)
                   \o varint_encode(Len(self.vin)) \o ins.some
                   \o varint_encode(Len(self.vout)) \o outs.some
                   \o to_le_bytes(self.locktime, 4))
         : ins \in {ConcatAll([i \in DOMAIN self.vin |->
                                 TransactionInput_serialize(self.vin[i])])},
           outs \in {ConcatAll([j \in DOMAIN self.vout |->
                                  TransactionOutput_serialize(self.vout[j])])}} : TRUE

\* variant: the scriptSigs of the other inputs stay as they are
signature_hash_KeepsScriptSigs(self, input_index, output) ==
    CHOOSE hash \in
        {IF ins = None \/ outs = None THEN None
         ELSE Some(sha256(sha256(to_le_bytes(self.version, 4)
                                 \o varint_encode(Len(self.vin)) \o ins.some
                                 \o varint_encode(Len(self.vout)) \o outs.some
                                 \o to_le_bytes(self.locktime, 4)
                                 \o to_le_bytes(SIGHASH_ALL, 4))))
         : ins \in {ConcatAll([i \in DOMAIN self.vin |->
                                 TransactionInput_serialize(
                                   [self.vin[i] EXCEPT !.scriptsig_asm =
                                      IF i - 1 = input_index THEN output.scriptpubkey_asm
                                      ELSE self.vin[i].scriptsig_asm])])},
           outs \in {ConcatAll([j \in DOMAIN self.vout |->
                                  TransactionOutput_serialize(self.vout[j])])}} : TRUE

\* Transaction::signature_hash (input_index counts from 0), or None where an
\* unwrap panics
signature_hash(self, input_index, output) ==
    CHOOSE hash \in
        {IF ins = None \/ outs = None THEN None
         ELSE Some(sha256(sha256(to_le_bytes(self.version, 4)
                                 \o varint_encode(Len(self.vin)) \o ins.some
                                 \o varint_encode(Len(self.vout)) \o outs.some
                                 \o to_le_bytes(self.locktime, 4)
                                 \o to_le_bytes(SIGHASH_ALL, 4))))
         : ins \in {ConcatAll([i \in DOMAIN self.vin |->
                                 TransactionInput_serialize(
                                   [self.vin[i] EXCEPT !.scriptsig_asm =
                                      IF i - 1 = input_index THEN output.scriptpubkey_asm
                                      ELSE << >>])])},
           outs \in {ConcatAll([j \in DOMAIN self.vout |->
                                  TransactionOutput_serialize(self.vout[j])])}} : TRUE

\* SecretKey::from_slice accepts 32 bytes that are not all 0 (and below the
\* curve order, which every key of the inputs is)
SecretKey_from_slice_ok(key_data) ==
    Len(key_data) = 32 /\ \E i \in DOMAIN key_data : key_data[i] # 0

\* secp.sign_ecdsa(msg, key).serialize_der(): the nonce is derived from the
\* message and the key, so the signature is a function of the two (the
\* signature itself is not computed)
sign_ecdsa_der(msg, key_data) == sha256(msg \o key_data)

\* the scriptSig sign_input builds from the signature hash z
ScriptSigFor(z, utxo_box) ==
    CHOOSE script_sig \in
        {p2pkh_script_sig(bytes_to_hex(sig_der),
                          bytes_to_hex(utxo_box.keypair.public_key.key_data))
         : sig_der \in {sign_ecdsa_der(z, utxo_box.keypair.private_key.key_data)
                          \o SubSeq(Rev(to_le_bytes(SIGHASH_ALL, 4)), 4, 4)}} : TRUE

\* Transaction::sign_input: the transaction afterwards, or a panic
sign_input(self, input_index, utxo_box) ==
    CHOOSE r \in
        {IF z = None
            \/ ~SecretKey_from_slice_ok(utxo_box.keypair.private_key.key_data)
            \/ input_index >= Len(self.vin)
         THEN [panic |-> TRUE, self |-> self]
         ELSE [panic |-> FALSE,
               self |-> [self EXCEPT !.vin[input_index + 1].scriptsig_asm =
                                        ScriptSigFor(z.some, utxo_box)]]
         : z \in {signature_hash(self, input_index, utxo_box.output)}} : TRUE

\* Transaction::sign_all_inputs: sign_input for index 0, 1, ... in turn
RECURSIVE SignFrom(_, _, _)
SignFrom(self, utxo_boxes, index) ==
    IF index >= Len(utxo_boxes) THEN [panic |-> FALSE, self |-> self]
    ELSE CHOOSE signed \in
             {IF r.panic THEN r ELSE SignFrom(r.self, utxo_boxes, index + 1)
              : r \in {sign_input(self, index, utxo_boxes[index + 1])}} : TRUE

sign_all_inputs(self, utxo_boxes) == SignFrom(self, utxo_boxes, 0)

(***************************************************************************)
(* The inputs of a transaction are signed one at a time, in any order      *)
(***************************************************************************)
MaxSignInputs == 3

\* a keypair whose secret key is 32 bytes of the given byte
SignKeypair(byte) ==
    [private_key |-> [key_data |-> Filled(32, byte)],
     public_key |-> [key_data |-> <<2>> \o Filled(32, byte)]]

\* a UTXO with the P2PKH output it spends and the keypair of that output
SignBox(txid, vout, byte) ==
    [utxo |-> [txid |-> txid, vout |-> vout, value |-> 1000],
     output |-> [scriptpubkey |-> "",
                 scriptpubkey_asm |-> p2pkh_script_pub_key(bytes_to_hex(Filled(20, byte))),
                 scriptpubkey_type |-> "p2pkh",
                 scriptpubkey_address |-> "", value |-> 1000],
     keypair |-> SignKeypair(byte)]

\* two outputs of one transaction under different keys, an output of another
\* transaction under the first key, one whose key is no secret key, and one
\* whose txid is not hex
SignBoxInputs ==
    {SignBox(<<"a", "0", "1", "f">>, 0, 7),
     SignBox(<<"a", "0", "1", "f">>, 1, 9),
     SignBox(<<"0", "0", "f", "f">>, 0, 7),
     SignBox(<<"0", "0", "f", "f">>, 1, 0),
     SignBox(<<"a", "0", "1">>, 0, 9)}

SignTargetInputs ==
    {<<[address |-> [testnet |-> FALSE, hash160 |-> [i \in 1..20 |-> i]], amount |-> 546]>>,
     <<[address |-> [testnet |-> TRUE, hash160 |-> Filled(20, 255)], amount |-> 1000],
       [address |-> [testnet |-> TRUE, hash160 |-> Filled(20, 9)], amount |-> 70000]>>}

InitSign ==
    /\ SelectIdle
    /\ FacadeAtStart
    /\ private_tree = None
    /\ public_tree = None
    /\ result = None
    /\ call \in [op : {"sign"}, boxed_utxos : SeqsUpTo(SignBoxInputs, MaxSignInputs),
                 targets : SignTargetInputs]

\* Transaction::create(&boxed_utxos, targets) for the transaction to sign
SignCreate ==
    /\ call.op = "sign"
    /\ result = None
    /\ result' = [tx |-> Transaction_create(call.boxed_utxos, call.targets).transaction,
                  signed |-> {}]
    /\ UNCHANGED <<private_tree, public_tree, call, cs_vars, facade_vars>>

\* tx.sign_input(input_index, &boxed_utxos[input_index]) for an input that is
\* not signed yet
SignInput ==
    /\ call.op = "sign"
    /\ result # None
    /\ "signed" \in DOMAIN result
    /\ \E input_index \in (0..(Len(call.boxed_utxos) - 1)) \ result.signed :
         \E r \in {sign_input(result.tx, input_index, call.boxed_utxos[input_index + 1])} :
            result' = IF r.panic THEN Panic
                      ELSE [tx |-> r.self, signed |-> result.signed \cup {input_index}]
    /\ UNCHANGED <<private_tree, public_tree, call, cs_vars, facade_vars>>

NextSign ==
    \/ SignCreate
    \/ SignInput

SpecSign == InitSign /\ [][NextSign]_vars

(***************************************************************************)
(* Properties of signing                                                   *)
(***************************************************************************)
\* the transaction before any input is signed
UnsignedTx == Transaction_create(call.boxed_utxos, call.targets).transaction

\* the step signs input i
SignedStep(i) ==
    /\ result # None /\ "signed" \in DOMAIN result
    /\ result' # None /\ "signed" \in DOMAIN result'
    /\ i \notin result.signed
    /\ result'.signed = result.signed \cup {i}

\* the bytes that are hashed for input i: the unsigned transaction with the
\* scriptSig of input i replaced by the scriptPubKey of its previous output
\* and every other scriptSig empty, followed by SIGHASH_ALL
SighashPreimage(i) ==
    Transaction_serialize(
        [UnsignedTx EXCEPT !.vin =
            [k \in DOMAIN @ |->
                [@[k] EXCEPT !.scriptsig_asm =
                    IF k = i + 1 THEN call.boxed_utxos[i + 1].output.scriptpubkey_asm
                    ELSE << >>]]]).some
      \o to_le_bytes(SIGHASH_ALL, 4)

\* C21: when input i is signed, whichever inputs are signed already, the
\* signature hash is the double SHA-256 of the transaction with input i's
\* scriptSig replaced by its previous output's scriptPubKey and every other
\* scriptSig emptied; the step changes nothing but input i's scriptsig_asm,
\* which becomes the signature over that hash and the public key; and when
\* the last input is signed the transaction is the one that signing the
\* inputs in ascending order yields.
C21_SigningOrderIndependent ==
    [][ \A i \in 0..(MaxSignInputs - 1) :
          SignedStep(i) =>
            LET utxo_box == call.boxed_utxos[i + 1]
                z == sha256(sha256(SighashPreimage(i)))
                sig_der == sign_ecdsa_der(z, utxo_box.keypair.private_key.key_data) \o <<1>>
            IN  /\ signature_hash(result.tx, i, utxo_box.output) = Some(z)
                /\ result'.tx =
                     [result.tx EXCEPT !.vin[i + 1].scriptsig_asm =
                        <<bytes_to_hex(sig_der),
                          bytes_to_hex(utxo_box.keypair.public_key.key_data)>>]
                /\ result'.signed = 0..(Len(call.boxed_utxos) - 1) =>
                     result'.tx = sign_all_inputs(UnsignedTx, call.boxed_utxos).self
      ]_vars

\* the three inputs of a transaction, which spend different outputs, two of
\* them under the same key, are all signed
C21_Witness ==
    /\ result # None
    /\ "signed" \in DOMAIN result
    /\ result.signed = {0, 1, 2}
    /\ Cardinality({call.boxed_utxos[k] : k \in 1..3}) = 3
    /\ call.boxed_utxos[1].keypair = call.boxed_utxos[3].keypair
    /\ \A k \in 1..3 : Len(result.tx.vin[k].scriptsig_asm) = 2

====
